---- MODULE Spec2Model ----
(***************************************************************************)
(* State-machine model of the p3-bridge delivery pipeline:                 *)
(*   - postWithRetries      (src/src/http/postQueue.js, lines 170-211)     *)
(*   - PostQueue            (src/src/http/postQueue.js, lines 28-151)      *)
(*   - the decoder callback (src/src/logger.js, lines 313-424)             *)
(* Every action is one run of an event-loop callback from the event that   *)
(* starts it to its next await (or its end): JavaScript runs such a        *)
(* segment without interleaving.                                           *)
(***************************************************************************)
EXTENDS Integers, Sequences, FiniteSets, TLC

----------------------------------------------------------------------------
(* Bounds of the model *)

\* number of frames the transport delivers
MaxRecords == 1
\* largest configured post.retries
MaxRetries == 1
\* largest configured post.queueDrainMaxPerTick
MaxDrainPerTick == 2
\* the periodic tick stops starting replays of a head entry tried this often
MaxAttempts == 2
\* drain activations the model can hold at once
MaxDrains == 2
\* writes of the queue file that fail
MaxFaults == 2
\* largest post.retries of a configuration with other than the default delays
MaxSleeps == 3
\* longest buffer handed to crc16Ccitt
MaxBufLen == 3
\* longest payload of a frame on the wire
MaxPayloadLen == 2
\* PUT /admin/api/settings requests served
MaxPuts == 1
\* longest byte run handed to isMostlyPrintable
MaxRunLen == 20
\* longest field handed to readUIntLE
MaxUIntLen == 8
\* most fields of a record
MaxFields == 3
\* most entries in the queue file when the replay starts
MaxQueued == 3

----------------------------------------------------------------------------
(* HTTP outcomes *)

\* response statuses the endpoint answers with (validateStatus: () => true)
Statuses == {200, 404, 429, 503}

\* lastError of an entry: `HTTP ${status}` or the exception's message
HttpError(status) == [kind |-> "HTTP", status |-> status]
ExceptionError == [kind |-> "message", status |-> 0]

VARIABLES
  cfg,        \* the loaded configuration (cfg.post.*, argv)
  file,       \* post-errors-queue.json
  queue,      \* PostQueue.queue
  draining,   \* PostQueue._draining
  timer,      \* PostQueue._timer is set
  drains,     \* the drain() activations, by slot
  h,          \* the decoder callback's activation for each record
  nrec,       \* records handed to the callback so far
  nextId,     \* ids given out (crypto.randomUUID: fresh; here also the enqueue order)
  persisted,  \* history: persist() has run
  startupThrew, \* history: the constructor raised an error
  replayed,   \* history: ids whose replay POST returned 2xx, in order
  enqLog,     \* history: the record of each enqueue() call, in order
  ev,         \* history: the callback that ran last
  stopping,   \* main: let stopping
  shut,       \* gracefulShutdown's position: "none", "awaitAdmin", "flush"
  exited,     \* process.exit has run
  tcpSocket,  \* main: let tcpSocket (the socket object, or null)
  tcpReconnectTimer, \* main: let tcpReconnectTimer
  connectTimer, \* connectOnce: const t, the connect timeout of the current socket
  attempt,    \* TCP supervisor: let attempt
  target,     \* targetIp, targetPort
  rcfg,       \* TCP supervisor: const rcfg
  tev,        \* history: the supervisor event that ran last
  noisy,      \* the link delivers frames whose CRC check fails
  msg,        \* createState: the message counters of s
  faults,     \* writes of the queue file that will fail (disk full, no permission)
  unhandled,  \* history: an exception left a callback or drain() unhandled
  udpSocket,  \* main: let udpSocket
  adminHandle, \* main: let adminHandle (the admin listener, or a stub)
  crcRun,     \* crc16Ccitt: buf, i, crc
  decoder,    \* the StreamP3Decoder: its rolling buffer and the frames it emitted
  adminReq,   \* the request the admin listener is serving and its answer
  live,       \* PUT /admin/api/settings: the live config, the patch, the answer
  printRun,   \* isMostlyPrintable: buf, i, ok
  uintRun,    \* readUIntLE: buf, i, v
  decodedRun  \* the decoder callback's loop over parsed.fields: decoded

\* the process-wide and TCP supervisor variables
tvars == <<stopping, shut, exited, tcpSocket, tcpReconnectTimer, connectTimer,
           attempt, target, rcfg, tev>>

\* the delivery pipeline's variables
pvars == <<cfg, file, queue, draining, timer, drains, h, nrec, nextId,
           persisted, startupThrew, replayed, enqLog, ev,
           noisy, msg, faults, unhandled>>

\* the variables of the UDP listener, the admin listener, the CRC and the framer
uvars == <<printRun, uintRun, decodedRun>>

avars == <<udpSocket, adminHandle, crcRun, decoder, adminReq, live, uvars>>

vars == <<cfg, file, queue, draining, timer, drains, h, nrec, nextId,
          persisted, startupThrew, replayed, enqLog, ev,
          stopping, shut, exited, tcpSocket, tcpReconnectTimer, connectTimer,
          attempt, target, rcfg, tev,
          noisy, msg, faults, unhandled,
          udpSocket, adminHandle, crcRun, decoder, adminReq, live,
          printRun, uintRun, decodedRun>>

----------------------------------------------------------------------------
(* The queue file: text on disk, JSON.stringify and JSON.parse *)

\* "undefined": the value JSON.stringify leaves out of an object
Undefined == "undefined"

\* file texts: whitespace only, text JSON.parse rejects, or the text of a JSON value
BlankText == [form |-> "blank", type |-> "none", items |-> <<>>]
GarbageText == [form |-> "garbage", type |-> "none", items |-> <<>>]
JsonText(type, items) == [form |-> "json", type |-> type, items |-> items]

MissingFile == [exists |-> FALSE, text |-> BlankText]
FileOf(text) == [exists |-> TRUE, text |-> text]

\* a payload that reports every CRC as good
PayloadCrcAlwaysOk(r, crcOk, debug) ==
  [rec |-> r, crcOk |-> TRUE, raw |-> IF debug THEN "hex" ELSE Undefined]

\* the payload object built for a record: crcOk is parsed.crc.ok, raw is
\* undefined unless --debug
Payload(r, crcOk, debug) ==
  [rec |-> r, crcOk |-> crcOk, raw |-> IF debug THEN "hex" ELSE Undefined]

\* JSON.stringify of a payload: a key whose value is undefined is left out
JsonData(d) ==
  IF "raw" \in DOMAIN d /\ d.raw # Undefined
  THEN [rec |-> d.rec, crcOk |-> d.crcOk, raw |-> d.raw]
  ELSE [rec |-> d.rec, crcOk |-> d.crcOk]

\* JSON.stringify of one queue entry (lastTriedAt null is written as null)
JsonEntry(e) == [e EXCEPT !.data = JsonData(e.data)]

\* JSON.stringify(this.queue, null, 2)
Stringify(q) == JsonText("array", [i \in 1..Len(q) |-> JsonEntry(q[i])])

\* JSON.parse(txt): throws on text that is no JSON
JsonParse(text) ==
  IF text.form = "json"
  THEN [threw |-> FALSE, type |-> text.type, items |-> text.items]
  ELSE [threw |-> TRUE, type |-> "none", items |-> <<>>]

\* safeReadJson without its try/catch
safeReadJsonNoCatch(f) ==
  IF ~f.exists THEN [threw |-> FALSE, value |-> <<>>]
  ELSE IF f.text.form = "blank" THEN [threw |-> FALSE, value |-> <<>>]
  ELSE LET parsed == JsonParse(f.text) IN
       IF parsed.threw THEN [threw |-> TRUE, value |-> <<>>]
       ELSE [threw |-> FALSE,
             value |-> IF parsed.type = "array" THEN parsed.items ELSE <<>>]

\* safeReadJson(filePath): the array in the file, [] for anything else
safeReadJson(f) ==
  IF ~f.exists THEN [threw |-> FALSE, value |-> <<>>]
  ELSE IF f.text.form = "blank" THEN [threw |-> FALSE, value |-> <<>>]
  ELSE LET parsed == JsonParse(f.text) IN
       IF parsed.threw THEN [threw |-> FALSE, value |-> <<>>]
       ELSE [threw |-> FALSE,
             value |-> IF parsed.type = "array" THEN parsed.items ELSE <<>>]

\* atomicWrite(filePath, contents): write the .tmp file, rename it over the file
atomicWrite(f, contents) == FileOf(contents)

\* obj.raw of a payload, whether the key is absent or holds undefined
RawOf(d) == IF "raw" \in DOMAIN d THEN d.raw ELSE Undefined

\* two entries agree on every property a reader of them can observe
SameEntry(a, b) ==
  /\ a.id = b.id
  /\ a.createdAt = b.createdAt
  /\ a.lastTriedAt = b.lastTriedAt
  /\ a.attempts = b.attempts
  /\ a.method = b.method
  /\ a.url = b.url
  /\ a.headers = b.headers
  /\ a.lastError = b.lastError
  /\ a.data.rec = b.data.rec
  /\ a.data.crcOk = b.data.crcOk
  /\ RawOf(a.data) = RawOf(b.data)

SameQueue(p, q) ==
  /\ Len(p) = Len(q)
  /\ \A i \in 1..Len(p) : SameEntry(p[i], q[i])

Ids(q) == {q[i].id : i \in 1..Len(q)}

----------------------------------------------------------------------------
(* PostQueue.enqueue *)

\* the entry object enqueue builds
NewEntry(id, data, reason) ==
  [id |-> id, createdAt |-> "iso", lastTriedAt |-> "null", attempts |-> 0,
   method |-> "POST", url |-> "url", headers |-> "headers",
   data |-> data, lastError |-> reason]

\* an enqueue that puts the entry at the head
QueueUnshift(q, entry) == <<entry>> \o q

\* this.queue.push(entry)
QueuePush(q, entry) == Append(q, entry)

\* an enqueue that persists before it pushes
EnqueuePersistFirst(q, entry) ==
  [queue |-> QueuePush(q, entry), contents |-> Stringify(q)]

\* enqueue's effect: the queue after the push and the text persist() writes
EnqueueEffect(q, entry) ==
  LET q2 == QueuePush(q, entry) IN [queue |-> q2, contents |-> Stringify(q2)]

\* what a callback that works on the queue reads and writes: the queue, the
\* file, the ids given out, the writes that will fail, and whether the call
\* it made last threw
QueueState ==
  [queue |-> queue, file |-> file, nextId |-> nextId, persisted |-> persisted,
   enqLog |-> enqLog, faults |-> faults, threw |-> FALSE]

\* postQueue.enqueue({method, url, headers, data, reason}): push, then
\* persist(); a write that fails leaves the file as it was and throws out of
\* enqueue, after the push
enqueue(st, data, reason) ==
  LET eff == EnqueueEffect(st.queue, NewEntry(st.nextId, data, reason))
      fails == st.faults > 0
  IN [queue |-> eff.queue,
      file |-> IF fails THEN st.file ELSE atomicWrite(st.file, eff.contents),
      nextId |-> st.nextId + 1,
      persisted |-> st.persisted \/ ~fails,
      enqLog |-> Append(st.enqLog, data.rec),
      faults |-> IF fails THEN st.faults - 1 ELSE st.faults,
      threw |-> fails]

----------------------------------------------------------------------------
(* Numbers: exact rational arithmetic for JavaScript's doubles *)

RECURSIVE Gcd(_, _)
Gcd(a, b) == IF b = 0 THEN a ELSE Gcd(b, a % b)

Abs(x) == IF x < 0 THEN -x ELSE x

\* the number n/d in lowest terms, d > 0
Rat(n, d) ==
  LET g == Gcd(Abs(n), d) IN
  IF g = 0 THEN [n |-> 0, d |-> 1] ELSE [n |-> n \div g, d |-> d \div g]

RInt(k) == [n |-> k, d |-> 1]

RMul(x, y) ==
  LET g1 == Gcd(Abs(x.n), y.d)
      g2 == Gcd(Abs(y.n), x.d)
      a == IF g1 = 0 THEN 1 ELSE g1
      b == IF g2 = 0 THEN 1 ELSE g2
  IN Rat((x.n \div a) * (y.n \div b), (x.d \div b) * (y.d \div a))

RAdd(x, y) ==
  LET g == Gcd(x.d, y.d)
      l == (x.d \div g) * y.d
  IN Rat(x.n * (l \div x.d) + y.n * (l \div y.d), l)

RLeq(x, y) == x.n * y.d <= y.n * x.d

\* a minimum that forgets the cap
RMinPicksFirst(x, y) == x

\* Math.min(x, y)
RMin(x, y) == IF RLeq(x, y) THEN x ELSE y

\* Math.pow(x, e), e a natural number
RECURSIVE RPow(_, _)
RPow(x, e) == IF e = 0 THEN RInt(1) ELSE RMul(x, RPow(x, e - 1))

\* Math.round(x): the integer nearest to x, halves rounded up
Round(x) == (2 * x.n + x.d) \div (2 * x.d)

\* Math.max(0, k)
Max0(k) == IF k < 0 THEN 0 ELSE k

\* a floor that rounds to the nearest integer
FloorRounds(x) == (2 * x.n + x.d) \div (2 * x.d)

\* Math.floor(x)
Floor(x) == x.n \div x.d

----------------------------------------------------------------------------
(* postWithRetries: one activation is [pc, attempt, delay] with the call's
   retryBackoffMultiplier and the sleeps made so far; its caller awaits it *)

\* before the first pass through the loop
PwrIdle ==
  [pc |-> "idle", attempt |-> 0, delay |-> RInt(0), multiplier |-> RInt(0),
   slept |-> <<>>]

\* postWithRetries is called: let attempt = 0; let delay = retryDelayMs
PwrCall(c) ==
  [PwrIdle EXCEPT !.delay = c.retryDelayMs,
                  !.multiplier = c.retryBackoffMultiplier]

\* top of the while loop: attempt++, then await axios.request(...); after a
\* sleep, delay = Math.floor(delay * retryBackoffMultiplier) comes first
PwrRequest(pw) ==
  [pw EXCEPT !.pc = "http", !.attempt = @ + 1,
             !.delay = IF pw.pc = "sleep"
                       THEN RInt(Floor(RMul(@, pw.multiplier))) ELSE @]

\* resp.status >= 200 && resp.status < 300
IsOk(status) == status >= 200 /\ status < 300

\* a classification that also retries every 4xx
RetryableAny4xx(status) == status >= 400 /\ status <= 599

\* (resp.status === 429) || (resp.status >= 500 && resp.status <= 599)
Retryable(status) == status = 429 \/ (status >= 500 /\ status <= 599)

\* a budget check that allows one attempt more
RetriesSpentLate(att, retries) == att > retries + 1

\* attempt > retries
RetriesSpent(att, retries) == att > retries

\* what the loop does with a response: return {ok, status}, or go on to sleep
OnResponse(pw, status, retries) ==
  IF IsOk(status) THEN [next |-> "return", ok |-> TRUE, status |-> status]
  ELSE IF ~Retryable(status) \/ RetriesSpent(pw.attempt, retries)
       THEN [next |-> "return", ok |-> FALSE, status |-> status]
       ELSE [next |-> "sleep", ok |-> FALSE, status |-> status]

\* what the loop does when axios.request rejects: rethrow, or go on to sleep
OnError(pw, retries) ==
  IF RetriesSpent(pw.attempt, retries)
  THEN [next |-> "throw", ok |-> FALSE, status |-> 0]
  ELSE [next |-> "sleep", ok |-> FALSE, status |-> 0]

\* await sleep(delay)
PwrSleep(pw) == [pw EXCEPT !.pc = "sleep", !.slept = Append(@, pw.delay)]

----------------------------------------------------------------------------
(* PostQueue.drain: one activation per slot *)

Slots == 1..MaxDrains

\* a slot no drain() call occupies.  calls, att0, tried, mark, grew and held
\* are history: postFn calls made, the entry's attempts before this call's
\* increment, the ids handed to postFn by this activation, the next fresh id
\* when postFn was called, whether a replay of this activation succeeded
\* after an enqueue() that ran while it was awaited, and whether this
\* activation was in flight when gracefulShutdown was called
IdleDrain ==
  [active |-> FALSE, entry |-> 0, processed |-> 0,
   pw |-> PwrIdle, calls |-> 0, att0 |-> 0, tried |-> {}, mark |-> 0,
   grew |-> FALSE, held |-> FALSE]

\* a persist() that leaves the file as it is
PersistWritesNothing(f, q) == f

\* persist(): the file after atomicWrite(filePath, JSON.stringify(queue))
Persist(f, q) == atomicWrite(f, Stringify(q))

\* persist() with k writes still to fail: a failing write throws and leaves
\* the file as it was
PersistOutcome(f, q, k) ==
  IF k > 0 THEN [file |-> f, faults |-> k - 1, threw |-> TRUE]
  ELSE [file |-> Persist(f, q), faults |-> k, threw |-> FALSE]

\* a drain that never looks at the single-flight flag
DrainSkipsNoFlag(flag, len) == len = 0

\* if (this._draining) return; if (!this.queue.length) return;
DrainSkips(flag, len) == flag \/ len = 0

\* a loop condition that lets one entry more through
LoopContinuesOneMore(len, processed, max) == len > 0 /\ processed <= max

\* while (this.queue.length && processed < this.drainMaxPerTick)
LoopContinues(len, processed, max) == len > 0 /\ processed < max

\* a drain that replays the newest entry
PickLast(q) == Len(q)

\* const entry = this.queue[0]  (the index taken, counted from 1)
PickEntry(q) == 1

\* a replay that leaves its entry at the head of the queue
QueueShiftKeepsHead(q) == q

\* this.queue.shift()
QueueShift(q) == IF q = <<>> THEN q ELSE Tail(q)

\* entry.lastTriedAt = now; entry.attempts = (entry.attempts || 0) + 1
BumpAttempts(e) == [e EXCEPT !.lastTriedAt = "iso", !.attempts = @ + 1]

\* entry.lastError = err, through the reference the drain holds
SetLastError(q, id, err) ==
  [i \in 1..Len(q) |->
     IF q[i].id = id THEN [q[i] EXCEPT !.lastError = err] ELSE q[i]]

\* The loop from its condition to the await of postFn(entry), or to the end
\* of drain() (finally: this._draining = false).
DrainLoop(q, d, max) ==
  IF LoopContinues(Len(q), d.processed, max)
  THEN LET k == PickEntry(q) IN
       [queue |-> [q EXCEPT ![k] = BumpAttempts(q[k])],
        drain |-> [d EXCEPT !.entry = q[k].id, !.att0 = q[k].attempts,
                            !.calls = @ + 1, !.tried = @ \cup {q[k].id},
                            !.mark = nextId,
                            !.pw = PwrRequest(PwrCall(cfg))],
        finished |-> FALSE]
  ELSE [queue |-> q, drain |-> IdleDrain, finished |-> TRUE]

FreeSlots == {s \in Slots : ~drains[s].active}

\* drain(trigger), from the call to its first await or its return; the
\* trigger is only written to the log
DrainInvoke(trigger) ==
  IF DrainSkips(draining, Len(queue))
  THEN UNCHANGED <<queue, drains, draining>>
  ELSE /\ FreeSlots # {}
       /\ LET s == CHOOSE x \in FreeSlots : \A y \in FreeSlots : x <= y
              st == DrainLoop(queue,
                              [IdleDrain EXCEPT !.active = TRUE],
                              cfg.drainMaxPerTick)
          IN /\ queue' = st.queue
             /\ drains' = [drains EXCEPT ![s] = st.drain]
             /\ draining' = ~st.finished

\* a failure that is recorded and then goes on with the loop
DrainAfterFailureGoesOn(q, d, max) == DrainLoop(q, d, max)

\* a drain that ends after a failure without its finally clause
DrainAfterFailureKeepsFlag(q, d, max) ==
  [queue |-> q, drain |-> IdleDrain, finished |-> FALSE]

\* break; finally { this._draining = false }
DrainAfterFailure(q, d, max) ==
  [queue |-> q, drain |-> IdleDrain, finished |-> TRUE]

\* res.ok: shift, persist, processed++, continue.  A persist() that throws
\* is caught by the loop's catch: lastError is set on the entry already
\* shifted out, persist() is called again, break; if that call throws too,
\* drain() rejects
DrainSucceeded(s) ==
  LET d == drains[s]
      q1 == QueueShift(queue)
      raced == \E id \in Ids(queue) : id >= d.mark
      w1 == PersistOutcome(file, q1, faults)
      w2 == IF w1.threw THEN PersistOutcome(w1.file, q1, w1.faults) ELSE w1
      st == IF w1.threw
            THEN DrainAfterFailure(q1, d, cfg.drainMaxPerTick)
            ELSE DrainLoop(q1, [d EXCEPT !.processed = @ + 1,
                                         !.grew = @ \/ raced],
                           cfg.drainMaxPerTick)
  IN /\ replayed' = Append(replayed, d.entry)
     /\ file' = w2.file
     /\ faults' = w2.faults
     /\ persisted' = (persisted \/ ~w2.threw)
     /\ unhandled' = (unhandled \/ w2.threw)
     /\ queue' = st.queue
     /\ drains' = [drains EXCEPT ![s] = st.drain]
     /\ draining' = IF st.finished THEN FALSE ELSE draining

\* !res.ok, or postFn threw: lastError, persist, break.  A persist() that
\* throws after !res.ok is caught by the loop's catch: lastError becomes the
\* exception's message and persist() is called again; a persist() that
\* throws inside the catch makes drain() reject
DrainFailed(s, err) ==
  LET d == drains[s]
      q1 == SetLastError(queue, d.entry, err)
      w1 == PersistOutcome(file, q1, faults)
      caught == w1.threw /\ err.kind = "HTTP"
      q2 == IF caught THEN SetLastError(q1, d.entry, ExceptionError) ELSE q1
      w2 == IF caught THEN PersistOutcome(w1.file, q2, w1.faults) ELSE w1
      st == DrainAfterFailure(q2, d, cfg.drainMaxPerTick)
  IN /\ file' = w2.file
     /\ faults' = w2.faults
     /\ persisted' = (persisted \/ ~w2.threw)
     /\ unhandled' = (unhandled \/ w2.threw)
     /\ queue' = st.queue
     /\ drains' = [drains EXCEPT ![s] = st.drain]
     /\ draining' = IF st.finished THEN FALSE ELSE draining
     /\ UNCHANGED replayed

----------------------------------------------------------------------------
(* The decoder callback: one activation per record *)

Records == 1..MaxRecords

\* frames the transport delivers where the claim is about several of them
MaxFrames == 2

\* the callback's activations in any specification
Activations == 1..(IF MaxFrames > MaxRecords THEN MaxFrames ELSE MaxRecords)

\* what the parser hands over: a parse error, a Status record, any other record
RecordKinds == {"parseError", "status", "passing"}

\* the outcome of a request as the retry policy is specified: a 2xx answer,
\* a 4xx answer other than 429, a retryable failure (429, 5xx, rejected
\* request; status 0 stands for a rejected request), or another answer
Outcome(status) ==
  IF status >= 200 /\ status <= 299 THEN "2xx"
  ELSE IF status >= 400 /\ status <= 499 /\ status # 429 THEN "terminal4xx"
  ELSE IF status = 0 \/ status = 429 \/ (status >= 500 /\ status <= 599)
       THEN "retryable"
  ELSE "other"

\* an activation that has not started.  crcOk is parsed.crc.ok of its record;
\* logged: the JSON line was written; warned: logger.warnMeta was called
\* (parse error, CRC mismatch); sent, sleeps, rfails, last and posted are
\* history: requests sent, sleeps begun, retryable failures seen, the last
\* request's outcome, a 2xx was received
IdleHandler ==
  [stage |-> "idle", kind |-> "none", crcOk |-> TRUE, logged |-> FALSE,
   warned |-> FALSE, pw |-> PwrIdle,
   sent |-> 0, sleeps |-> 0, rfails |-> 0, last |-> "none", posted |-> FALSE]

\* the history fields after a request's outcome
Seen(me, status) ==
  [me EXCEPT !.last = Outcome(status),
             !.rfails = IF Outcome(status) = "retryable" THEN @ + 1 ELSE @]

\* const isStatusRecord = (p) => ...
isStatusRecord(kind) == kind = "status"

\* The kinds drawn for an arriving record.  The callback tells a Status record
\* from another parsed record only in the suppressStatus test, so a Status
\* record is drawn only where that test can pass.
ArrivingKinds(suppress) ==
  IF suppress THEN RecordKinds ELSE RecordKinds \ {"status"}

\* the history variable ev tells three kinds of step apart: a call of drain(),
\* the end of a drain whose POST failed (with the failure), and every other step
NoError == [kind |-> "none", status |-> 0]
Event(name, err) ==
  IF name \in {"tick", "inlineOk"} THEN [name |-> "drainCall", err |-> NoError]
  ELSE IF name = "drainFail" THEN [name |-> "drainFail", err |-> err]
  ELSE [name |-> "other", err |-> NoError]

\* decoder.push(chunk), called by the transport's 'data' handler for every
\* chunk: framer and parser do not suspend, so the record of a completed frame
\* is handed to the callback when its bytes have arrived, whatever the
\* activations for earlier frames are waiting for
FrameReady(hs, n) == n < Len(hs)

\* a parser that reports every frame as a record
ParsedAlwaysOk(kind, crcOk) ==
  [ok |-> TRUE, kind |-> kind, crcOk |-> crcOk,
   torName |-> IF kind = "status" THEN "Status"
               ELSE IF kind = "passing" THEN "Passing" ELSE ""]

\* what the parser hands to the callback: parsed.ok, the record's kind and
\* parsed.crc.ok
Parsed(kind, crcOk) ==
  [ok |-> kind # "parseError", kind |-> kind, crcOk |-> crcOk,
   torName |-> IF kind = "status" THEN "Status"
               ELSE IF kind = "passing" THEN "Passing" ELSE ""]

\* the results of the CRC check of an arriving frame; a frame the parser
\* rejects carries none
CrcResults(noise, kind) ==
  IF noise /\ kind # "parseError" THEN BOOLEAN ELSE {TRUE}

\* createState(): msgTotal: 0, msgOk: 0, msgParseErr: 0, msgSuppressed: 0,
\* msgCrcBad: 0
\* the keys of s.msgByTorName
TorNames == {"Passing", "Status", "unknown"}

NoMessages ==
  [msgTotal |-> 0, msgOk |-> 0, msgParseErr |-> 0, msgSuppressed |-> 0,
   msgCrcBad |-> 0, msgByTorName |-> [k \in TorNames |-> 0]]

\* a count that is set to one instead of raised by one
incMapSetsOne(map, key) ==
  LET k == IF key = "" THEN "unknown" ELSE key IN [map EXCEPT ![k] = 1]

\* incMap(map, key): const k = (key || 'unknown').toString();
\* map[k] = (map[k] || 0) + 1
incMap(map, key) ==
  LET k == IF key = "" THEN "unknown" ELSE key IN [map EXCEPT ![k] = @ + 1]

\* an onParseResult that counts a suppressed record as handled
onParseResultCountsAll(s, parsed, suppressed) ==
  LET t == [s EXCEPT !.msgTotal = @ + 1] IN
  IF ~parsed.ok THEN [t EXCEPT !.msgParseErr = @ + 1]
  ELSE [t EXCEPT !.msgSuppressed = IF suppressed THEN @ + 1 ELSE @,
                 !.msgOk = @ + 1,
                 !.msgCrcBad = IF parsed.crcOk = FALSE THEN @ + 1 ELSE @]

\* state.onParseResult(parsed, { suppressed })
onParseResult(s, parsed, suppressed) ==
  LET t == [s EXCEPT !.msgTotal = @ + 1] IN
  IF ~parsed.ok THEN [t EXCEPT !.msgParseErr = @ + 1]
  ELSE IF suppressed THEN [t EXCEPT !.msgSuppressed = @ + 1]
  ELSE [t EXCEPT !.msgOk = @ + 1,
                 !.msgCrcBad = IF parsed.crcOk = FALSE THEN @ + 1 ELSE @,
                 !.msgByTorName = incMap(@, parsed.torName)]

\* new StreamP3Decoder(async (parsed) => { ... }) up to its first await
RecordArrives ==
  /\ ~exited
  /\ FrameReady(h, nrec)
  /\ \E kind \in ArrivingKinds(cfg.suppressStatus) :
     \E crcOk \in CrcResults(noisy, kind) :
       LET r == nrec + 1
           parsed == Parsed(kind, crcOk)
           me == [IdleHandler EXCEPT !.kind = kind, !.crcOk = crcOk]
       IN /\ nrec' = r
          /\ msg' = onParseResult(msg, parsed,
                                  parsed.ok /\ cfg.suppressStatus
                                    /\ isStatusRecord(kind))
          /\ h' = [h EXCEPT ![r] =
                IF ~parsed.ok
                THEN [me EXCEPT !.stage = "done", !.warned = TRUE]
                ELSE IF cfg.suppressStatus /\ isStatusRecord(kind)
                     THEN [me EXCEPT !.stage = "done"]
                ELSE IF ~cfg.postEnabled
                     THEN [me EXCEPT !.stage = "done", !.logged = TRUE,
                                     !.warned = ~parsed.crcOk]
                ELSE [me EXCEPT !.stage = "posting", !.logged = TRUE,
                                !.warned = ~parsed.crcOk,
                                !.pw = PwrRequest(PwrCall(cfg)), !.sent = 1]]
          /\ ev' = Event("arrive", NoError)
  /\ UNCHANGED <<cfg, noisy, faults, unhandled, file, queue, draining, timer,
                 drains, nextId, persisted, startupThrew, replayed, enqLog>>
  /\ UNCHANGED tvars
  /\ UNCHANGED avars

\* a failure branch that logs the failure and forgets the record
InlineFailedDrops(r, seen, reason) ==
  /\ h' = [h EXCEPT ![r] = [seen EXCEPT !.stage = "done"]]
  /\ ev' = Event("inlineQueued", NoError)
  /\ UNCHANGED <<queue, file, nextId, persisted, enqLog, draining, drains,
                 replayed, faults, unhandled>>

\* if (!res.ok) {...} and catch (e) {...}: postQueue.enqueue({..., reason}).
\* The enqueue of the !res.ok branch (reason `HTTP ${status}`) runs inside
\* try: when it throws, the catch block enqueues the record again, with the
\* exception's message.  An enqueue that throws inside the catch block
\* rejects the callback's promise.
InlineFailed(r, seen, reason) ==
  LET data == Payload(r, seen.crcOk, cfg.debug)
      first == enqueue(QueueState, data, reason)
      last == IF first.threw /\ reason.kind = "HTTP"
              THEN enqueue(first, data, ExceptionError)
              ELSE first
  IN /\ h' = [h EXCEPT ![r] = [seen EXCEPT !.stage = "done"]]
     /\ queue' = last.queue
     /\ file' = last.file
     /\ nextId' = last.nextId
     /\ persisted' = last.persisted
     /\ enqLog' = last.enqLog
     /\ faults' = last.faults
     /\ unhandled' = (unhandled \/ last.threw)
     /\ ev' = Event("inlineQueued", NoError)
     /\ UNCHANGED <<draining, drains, replayed>>

\* a success branch that does not trigger the drain
InlineSucceededNoDrain(r, seen) ==
  /\ h' = [h EXCEPT ![r] = [seen EXCEPT !.stage = "done", !.posted = TRUE]]
  /\ ev' = Event("inlineOk", NoError)
  /\ UNCHANGED <<queue, drains, draining>>
  /\ UNCHANGED <<file, nextId, persisted, replayed, enqLog, faults, unhandled>>

\* else {...}: state.onPostResult; void postQueue.drain('onSuccess')
InlineSucceeded(r, seen) ==
  /\ h' = [h EXCEPT ![r] = [seen EXCEPT !.stage = "done", !.posted = TRUE]]
  /\ DrainInvoke("onSuccess")
  /\ ev' = Event("inlineOk", NoError)
  /\ UNCHANGED <<file, nextId, persisted, replayed, enqLog, faults, unhandled>>

\* inside postWithRetries: warn, await sleep(delay)
InlineSleeps(r, seen) ==
  /\ h' = [h EXCEPT ![r] = [seen EXCEPT !.pw = PwrSleep(@), !.sleeps = @ + 1]]
  /\ ev' = Event("inlineRetry", NoError)
  /\ UNCHANGED <<file, queue, draining, drains, nextId, persisted,
                 replayed, enqLog, faults, unhandled>>

\* the awaited request of record r's inline POST is answered
InlineResponse(r, status) ==
  /\ ~exited
  /\ r \in DOMAIN h
  /\ h[r].stage = "posting" /\ h[r].pw.pc = "http"
  /\ LET res == OnResponse(h[r].pw, status, cfg.retries)
         seen == Seen(h[r], status)
     IN IF res.next = "sleep" THEN InlineSleeps(r, seen)
        ELSE IF res.ok THEN InlineSucceeded(r, seen)
        ELSE InlineFailed(r, seen, HttpError(res.status))
  /\ UNCHANGED <<cfg, noisy, msg, timer, nrec, startupThrew>>
  /\ UNCHANGED tvars
  /\ UNCHANGED avars

\* the awaited request of record r's inline POST is rejected (network, timeout)
InlineError(r) ==
  /\ ~exited
  /\ r \in DOMAIN h
  /\ h[r].stage = "posting" /\ h[r].pw.pc = "http"
  /\ LET res == OnError(h[r].pw, cfg.retries)
         seen == Seen(h[r], 0)
     IN IF res.next = "sleep" THEN InlineSleeps(r, seen)
        ELSE InlineFailed(r, seen, ExceptionError)
  /\ UNCHANGED <<cfg, noisy, msg, timer, nrec, startupThrew>>
  /\ UNCHANGED tvars
  /\ UNCHANGED avars

\* the sleep of record r's inline POST ends: next pass through the loop
InlineWake(r) ==
  /\ ~exited
  /\ r \in DOMAIN h
  /\ h[r].stage = "posting" /\ h[r].pw.pc = "sleep"
  /\ h' = [h EXCEPT ![r].pw = PwrRequest(@), ![r].sent = @ + 1]
  /\ ev' = Event("inlineWake", NoError)
  /\ UNCHANGED <<cfg, noisy, msg, faults, unhandled, file, queue, draining,
                 timer, drains, nrec, nextId,
                 persisted, startupThrew, replayed, enqLog>>
  /\ UNCHANGED tvars
  /\ UNCHANGED avars

----------------------------------------------------------------------------
(* The drain's callbacks *)

\* the setInterval callback of PostQueue.start: void this.drain('interval')
DrainTick ==
  /\ ~exited
  /\ timer
  /\ ~DrainSkips(draining, Len(queue)) => queue[PickEntry(queue)].attempts < MaxAttempts
  /\ DrainInvoke("interval")
  /\ ev' = Event("tick", NoError)
  /\ UNCHANGED <<cfg, noisy, msg, faults, unhandled, file, timer, h, nrec, nextId,
                 persisted, startupThrew, replayed, enqLog>>
  /\ UNCHANGED tvars
  /\ UNCHANGED avars

\* the awaited postFn(entry) of the drain in slot s gets a response
DrainResponse(s, status) ==
  /\ ~exited
  /\ drains[s].active /\ drains[s].pw.pc = "http"
  /\ LET res == OnResponse(drains[s].pw, status, cfg.retries)
     IN IF res.next = "sleep"
        THEN /\ drains' = [drains EXCEPT ![s].pw = PwrSleep(@)]
             /\ ev' = Event("drainRetry", NoError)
             /\ UNCHANGED <<file, queue, draining, persisted, replayed,
                            faults, unhandled>>
        ELSE IF res.ok
        THEN /\ DrainSucceeded(s)
             /\ ev' = Event("drainOk", NoError)
        ELSE /\ DrainFailed(s, HttpError(res.status))
             /\ ev' = Event("drainFail", HttpError(res.status))
  /\ UNCHANGED <<cfg, noisy, msg, timer, h, nrec, nextId, startupThrew,
                 enqLog>>
  /\ UNCHANGED tvars
  /\ UNCHANGED avars

\* the awaited postFn(entry) of the drain in slot s is rejected
DrainError(s) ==
  /\ ~exited
  /\ drains[s].active /\ drains[s].pw.pc = "http"
  /\ LET res == OnError(drains[s].pw, cfg.retries)
     IN IF res.next = "sleep"
        THEN /\ drains' = [drains EXCEPT ![s].pw = PwrSleep(@)]
             /\ ev' = Event("drainRetry", NoError)
             /\ UNCHANGED <<file, queue, draining, persisted, replayed,
                            faults, unhandled>>
        ELSE /\ DrainFailed(s, ExceptionError)
             /\ ev' = Event("drainFail", ExceptionError)
  /\ UNCHANGED <<cfg, noisy, msg, timer, h, nrec, nextId, startupThrew,
                 enqLog>>
  /\ UNCHANGED tvars
  /\ UNCHANGED avars

\* the sleep inside the drain's postFn ends
DrainWake(s) ==
  /\ ~exited
  /\ drains[s].active /\ drains[s].pw.pc = "sleep"
  /\ drains' = [drains EXCEPT ![s].pw = PwrRequest(@)]
  /\ ev' = Event("drainWake", NoError)
  /\ UNCHANGED <<cfg, noisy, msg, faults, unhandled, file, queue, draining, timer, h, nrec, nextId,
                 persisted, startupThrew, replayed, enqLog>>
  /\ UNCHANGED tvars
  /\ UNCHANGED avars

----------------------------------------------------------------------------
(* Reconnect delay: computeDelayMs, in exact rational arithmetic *)

\* largest value of attempt the supervisor reaches
MaxReconnects == 4

\* values Math.random() returns: 0 <= u < 1
MathRandom == {Rat(0, 1), Rat(1, 2), Rat(99, 100)}

\* an exponent that is not reduced by one
BackoffExpNoOffset(a) == a

\* const exp = Math.max(0, attempt - 1)
BackoffExp(a) == Max0(a - 1)

\* delay before the jitter: min(base * factor^exp, max)
BaseDelay(rc, a) ==
  RMin(RMul(RInt(rc.baseDelayMs), RPow(rc.backoffFactor, BackoffExp(a))),
       RInt(rc.maxDelayMs))

\* computeDelayMs(), with u the value Math.random() returned
computeDelayMs(rc, a, u) ==
  LET delay == BaseDelay(rc, a)
      jitter == RMul(delay, rc.jitterRatio)
      swing == RAdd(RMul(u, RInt(2)), RInt(-1))
  IN Max0(Round(RAdd(delay, RMul(swing, jitter))))

\* rcfg with every key left at its default
DefaultRcfg ==
  [baseDelayMs |-> 1000, maxDelayMs |-> 30000, backoffFactor |-> Rat(9, 5),
   jitterRatio |-> Rat(1, 5)]

\* rcfg as config.json may set it: the defaults; a low maximum with full
\* jitter; a maximum for which max * (1 + jitter) is no whole number
ReconnectConfigs ==
  {DefaultRcfg,
   [baseDelayMs |-> 1000, maxDelayMs |-> 2000, backoffFactor |-> Rat(9, 5),
    jitterRatio |-> Rat(1, 1)],
   [baseDelayMs |-> 1, maxDelayMs |-> 3, backoffFactor |-> Rat(9, 5),
    jitterRatio |-> Rat(1, 5)]}

----------------------------------------------------------------------------
(* The TCP supervisor and shutdown *)

\* targets (host, port) the admin API can set
Targets == {"A", "B"}

\* tcpSocket = null
NoSocket == [state |-> "null", listening |-> FALSE, target |-> "none"]

\* net.createConnection({host, port}) with the four handlers attached
NewSocket(tgt) == [state |-> "connecting", listening |-> TRUE, target |-> tgt]

\* the socket is connecting or connected
Live(sock) == sock.state \in {"connecting", "connected"}

\* tcpReconnectTimer: no timer pending / setTimeout(connectOnce, delayMs)
NoTimer == [pending |-> FALSE, delayMs |-> 0]
TimerIn(delayMs) == [pending |-> TRUE, delayMs |-> delayMs]

\* history: the event that ran last, whether it called setTimeout(connectOnce)
\* and whether it called net.createConnection
TEvent(name, sched, conn) == [name |-> name, sched |-> sched, conn |-> conn]

\* a scheduling that leaves attempt as it is
ScheduleAttemptKeeps(a) == a

\* attempt += 1
ScheduleAttempt(a) == a + 1

\* scheduleReconnect(reason), with u the value Math.random() returns
scheduleReconnect(name, u) ==
  IF stopping
  THEN /\ UNCHANGED <<attempt, tcpReconnectTimer>>
       /\ tev' = TEvent(name, FALSE, FALSE)
  ELSE LET a == ScheduleAttempt(attempt) IN
       /\ attempt' = a
       /\ tcpReconnectTimer' = TimerIn(computeDelayMs(rcfg, a, u))
       /\ tev' = TEvent(name, TRUE, FALSE)

\* a close handler that forgets to schedule
OnCloseForgets(name, u) ==
  /\ tcpSocket' = [tcpSocket EXCEPT !.state = "closed"]
  /\ connectTimer' = FALSE
  /\ tev' = TEvent(name, FALSE, FALSE)
  /\ UNCHANGED <<attempt, tcpReconnectTimer>>

\* tcpSocket.on('close'): clearTimeout(t); scheduleReconnect('close')
OnClose(name, u) ==
  /\ tcpSocket' = [tcpSocket EXCEPT !.state = "closed"]
  /\ connectTimer' = FALSE
  /\ scheduleReconnect(name, u)

\* the counter is capped: no failure is drawn once attempt is at the bound
MaySchedule == stopping \/ attempt < MaxReconnects

\* tcpSocket.on('connect'): clearTimeout(t); attempt = 0
TcpConnected ==
  /\ ~exited
  /\ tcpSocket.state = "connecting" /\ tcpSocket.listening
  /\ tcpSocket' = [tcpSocket EXCEPT !.state = "connected"]
  /\ connectTimer' = FALSE
  /\ attempt' = 0
  /\ tev' = TEvent("connect", FALSE, FALSE)
  /\ UNCHANGED <<stopping, shut, exited, tcpReconnectTimer, target, rcfg>>
  /\ UNCHANGED pvars
  /\ UNCHANGED avars

\* the connect fails (refused, unreachable): 'error' is logged, then 'close'
TcpConnectFails(u) ==
  /\ ~exited
  /\ tcpSocket.state = "connecting" /\ tcpSocket.listening
  /\ MaySchedule
  /\ OnClose("connectError", u)
  /\ UNCHANGED <<stopping, shut, exited, target, rcfg>>
  /\ UNCHANGED pvars
  /\ UNCHANGED avars

\* the connected socket closes (peer FIN, RST, local error): 'close'
TcpCloses(u) ==
  /\ ~exited
  /\ tcpSocket.state = "connected" /\ tcpSocket.listening
  /\ MaySchedule
  /\ OnClose("close", u)
  /\ UNCHANGED <<stopping, shut, exited, target, rcfg>>
  /\ UNCHANGED pvars
  /\ UNCHANGED avars

\* the connect timeout t fires: if (!tcpSocket) return; tcpSocket.destroy(...)
ConnectTimeout(u) ==
  /\ ~exited
  /\ connectTimer
  /\ IF Live(tcpSocket) /\ tcpSocket.listening
     THEN MaySchedule /\ OnClose("connectTimeout", u)
     ELSE /\ connectTimer' = FALSE
          /\ tev' = TEvent("staleTimeout", FALSE, FALSE)
          /\ UNCHANGED <<tcpSocket, attempt, tcpReconnectTimer>>
  /\ UNCHANGED <<stopping, shut, exited, target, rcfg>>
  /\ UNCHANGED pvars
  /\ UNCHANGED avars

\* a connectOnce without the stopping guard
connectOnceUnguarded ==
  /\ tcpReconnectTimer' = NoTimer
  /\ tcpSocket' = NewSocket(target)
  /\ connectTimer' = TRUE
  /\ tev' = TEvent("connectOnce", FALSE, TRUE)

\* a connectOnce that connects to the host and port of the socket it replaces
connectOnceSameHost ==
  IF stopping
  THEN /\ tcpReconnectTimer' = NoTimer
       /\ tev' = TEvent("connectOnce", FALSE, FALSE)
       /\ UNCHANGED <<tcpSocket, connectTimer>>
  ELSE /\ tcpReconnectTimer' = NoTimer
       /\ tcpSocket' = NewSocket(tcpSocket.target)
       /\ connectTimer' = TRUE
       /\ tev' = TEvent("connectOnce", FALSE, TRUE)

\* connectOnce(): clear the timer, cleanupSocket(), createConnection, set t
connectOnce ==
  IF stopping
  THEN /\ tcpReconnectTimer' = NoTimer
       /\ tev' = TEvent("connectOnce", FALSE, FALSE)
       /\ UNCHANGED <<tcpSocket, connectTimer>>
  ELSE /\ tcpReconnectTimer' = NoTimer
       /\ tcpSocket' = NewSocket(target)
       /\ connectTimer' = TRUE
       /\ tev' = TEvent("connectOnce", FALSE, TRUE)

\* tcpReconnectTimer fires: connectOnce
ReconnectTimerFires ==
  /\ ~exited
  /\ tcpReconnectTimer.pending
  /\ connectOnce
  /\ UNCHANGED <<stopping, shut, exited, attempt, target, rcfg>>
  /\ UNCHANGED pvars
  /\ UNCHANGED avars

\* a setTarget that arms the reconnect timer and leaves the socket open
setTargetKeepsSocket(new, u) ==
  /\ target' = new
  /\ MaySchedule
  /\ scheduleReconnect("setTarget", u)
  /\ UNCHANGED <<tcpSocket, connectTimer>>

\* setTarget({ip, port}) in TCP mode: if (tcpSocket) tcpSocket.destroy(err);
\* destroying a live socket emits 'error' and 'close' before any other event
setTarget(new, u) ==
  /\ target' = new
  /\ IF Live(tcpSocket) /\ tcpSocket.listening
     THEN MaySchedule /\ OnClose("setTarget", u)
     ELSE /\ tev' = TEvent("setTarget", FALSE, FALSE)
          /\ UNCHANGED <<tcpSocket, connectTimer, attempt, tcpReconnectTimer>>

\* PUT /admin/api/target: setTarget
SetTarget(new, u) ==
  /\ ~exited
  /\ setTarget(new, u)
  /\ UNCHANGED <<stopping, shut, exited, rcfg>>
  /\ UNCHANGED pvars
  /\ UNCHANGED avars

\* udpSocket = null / dgram.createSocket('udp4') and what became of its bind
NoUdp == [state |-> "null"]
UdpSocket(state) == [state |-> state]

\* adminHandle.stop(): server.close(), or the stub's no-op
StopAdmin(handle) == IF handle = "server" THEN "closed" ELSE handle

\* gracefulShutdown(reason, ...) up to `await adminHandle.stop()`:
\* if (stopping) return; stopping = true; postQueue.stop()
GracefulShutdown ==
  /\ ~exited
  /\ IF stopping
     THEN /\ tev' = TEvent("shutdownAgain", FALSE, FALSE)
          /\ UNCHANGED <<stopping, shut, timer, drains>>
     ELSE /\ stopping' = TRUE
          /\ shut' = "awaitAdmin"
          /\ timer' = FALSE
          /\ drains' = [s \in Slots |->
                          [drains[s] EXCEPT !.held = drains[s].active]]
          /\ tev' = TEvent("shutdown", FALSE, FALSE)
  /\ UNCHANGED <<exited, tcpSocket, tcpReconnectTimer, connectTimer,
                 attempt, target, rcfg>>
  /\ UNCHANGED <<cfg, noisy, msg, faults, unhandled, file, queue, draining, h,
                 nrec, nextId, persisted, startupThrew, replayed, enqLog, ev>>
  /\ UNCHANGED avars

\* gracefulShutdown after adminHandle.stop() resolved: clearTimeout,
\* removeAllListeners, destroy, tcpSocket = null, setTimeout(exit, 150)
GracefulShutdownResume ==
  /\ ~exited
  /\ shut = "awaitAdmin"
  /\ tcpReconnectTimer' = NoTimer
  /\ tcpSocket' = NoSocket
  /\ shut' = "flush"
  /\ tev' = TEvent("shutdownResume", FALSE, FALSE)
  /\ udpSocket' = NoUdp
  /\ adminHandle' = StopAdmin(adminHandle)
  /\ UNCHANGED <<stopping, exited, connectTimer, attempt, target, rcfg>>
  /\ UNCHANGED pvars
  /\ UNCHANGED <<crcRun, decoder, adminReq, live, uvars>>

\* the 150 ms timer of gracefulShutdown fires: process.exit(exitCode)
ProcessExit ==
  /\ ~exited
  /\ shut = "flush"
  /\ exited' = TRUE
  /\ tev' = TEvent("exit", FALSE, FALSE)
  /\ UNCHANGED <<stopping, shut, tcpSocket, tcpReconnectTimer, connectTimer,
                 attempt, target, rcfg>>
  /\ UNCHANGED pvars
  /\ UNCHANGED avars

\* process.on('SIGINT') of TCP mode: stopping = true, clearTimeout,
\* cleanupSocket(), process.exit(0)
Sigint ==
  /\ ~exited
  /\ stopping' = TRUE
  /\ tcpReconnectTimer' = NoTimer
  /\ tcpSocket' = NoSocket
  /\ exited' = TRUE
  /\ tev' = TEvent("sigint", FALSE, FALSE)
  /\ UNCHANGED <<shut, connectTimer, attempt, target, rcfg>>
  /\ UNCHANGED pvars
  /\ UNCHANGED avars

----------------------------------------------------------------------------
(* The UDP listener *)

\* what keeps the event loop running once the bind has failed: the admin
\* listener.  The socket that is not bound holds no active handle, and every
\* timer main() sets is unref'd.
LoopAlive(handle) == handle = "server"

\* udpSocket.on('listening'): the bind succeeded
UdpListening ==
  /\ ~exited
  /\ udpSocket.state = "binding"
  /\ udpSocket' = UdpSocket("listening")
  /\ tev' = TEvent("udpListening", FALSE, FALSE)
  /\ UNCHANGED <<stopping, shut, exited, tcpSocket, tcpReconnectTimer,
                 connectTimer, attempt, target, rcfg>>
  /\ UNCHANGED pvars
  /\ UNCHANGED <<adminHandle, crcRun, decoder, adminReq, live, uvars>>

\* the bind fails (EADDRINUSE, EACCES, EADDRNOTAVAIL): the socket emits
\* 'error', and udpSocket.on('error') logs it; the process ends only when
\* nothing keeps the event loop running
UdpBindFails ==
  /\ ~exited
  /\ udpSocket.state = "binding"
  /\ udpSocket' = UdpSocket("unbound")
  /\ exited' = ~LoopAlive(adminHandle)
  /\ tev' = TEvent("udpBindError", FALSE, FALSE)
  /\ UNCHANGED <<stopping, shut, tcpSocket, tcpReconnectTimer,
                 connectTimer, attempt, target, rcfg>>
  /\ UNCHANGED pvars
  /\ UNCHANGED <<adminHandle, crcRun, decoder, adminReq, live, uvars>>

\* the bound socket emits 'error' (a failed receive): udpSocket.on('error')
\* logs it
UdpError ==
  /\ ~exited
  /\ udpSocket.state = "listening"
  /\ tev' = TEvent("udpError", FALSE, FALSE)
  /\ UNCHANGED <<stopping, shut, exited, tcpSocket, tcpReconnectTimer,
                 connectTimer, attempt, target, rcfg>>
  /\ UNCHANGED pvars
  /\ UNCHANGED avars

\* udpSocket.on('message'): decoder.push(msg), which hands the datagram's
\* record to the callback
UdpMessage ==
  /\ udpSocket.state = "listening"
  /\ RecordArrives

----------------------------------------------------------------------------
(* crc16Ccitt, on 16-bit naturals *)

\* 0x1021, 0xFFFF and 0x10000
CrcPoly == 4129
CrcStart == 65535
Word == 65536

\* a ^ b on non-negative integers
RECURSIVE Xor(_, _)
Xor(a, b) ==
  IF a = 0 THEN b
  ELSE IF b = 0 THEN a
  ELSE (((a % 2) + (b % 2)) % 2) + 2 * Xor(a \div 2, b \div 2)

\* (crc & 0x8000) ? (((crc << 1) ^ 0x1021) & 0xFFFF) : ((crc << 1) & 0xFFFF)
ShiftBit(crc) ==
  IF (crc \div 32768) % 2 = 1 THEN Xor(crc * 2, CrcPoly) % Word
  ELSE (crc * 2) % Word

\* the loop over j: n more shifts
RECURSIVE ShiftBits(_, _)
ShiftBits(crc, n) == IF n = 0 THEN crc ELSE ShiftBits(ShiftBit(crc), n - 1)

\* buildTable
CRC16_TABLE == [i \in 0..255 |-> ShiftBits((i * 256) % Word, 8) % Word]

\* one iteration of crc16Ccitt's loop
crcByte(crc, byte) ==
  LET b == byte % 256
      idx == (crc \div 256) % 256
  IN Xor(Xor(CRC16_TABLE[idx], (crc * 256) % Word), b) % Word

\* CRC-16 with polynomial 0x1021, initial value 0xFFFF, no reflection and no
\* final XOR, bit by bit, for one more byte: the byte is XORed into the high
\* byte, then eight shifts
Crc16Reference(crc, byte) == ShiftBits(Xor(crc, (byte % 256) * 256), 8)

\* no call of crc16Ccitt is running
NoCrcRun == [pc |-> "idle", buf |-> <<>>, i |-> 0, crc |-> 0, ref |-> 0]

\* crc16Ccitt(buf) is entered: let crc = 0xFFFF, i = 0; ref is the reference
\* CRC of the bytes the loop has taken
CrcCall(buf) ==
  [pc |-> "loop", buf |-> buf, i |-> 0, crc |-> CrcStart, ref |-> CrcStart]

\* for (let i = 0; i < buf.length; i++): one iteration
CrcLoop ==
  /\ crcRun.pc = "loop"
  /\ crcRun.i < Len(crcRun.buf)
  /\ crcRun' = [crcRun EXCEPT !.i = @ + 1,
                              !.crc = crcByte(@, crcRun.buf[crcRun.i + 1]),
                              !.ref = Crc16Reference(@, crcRun.buf[crcRun.i + 1])]
  /\ UNCHANGED <<pvars, tvars, udpSocket, adminHandle, decoder, adminReq, live, uvars>>

\* return crc & 0xFFFF
CrcReturn ==
  /\ crcRun.pc = "loop"
  /\ crcRun.i = Len(crcRun.buf)
  /\ crcRun' = [crcRun EXCEPT !.pc = "returned", !.crc = @ % Word]
  /\ UNCHANGED <<pvars, tvars, udpSocket, adminHandle, decoder, adminReq, live, uvars>>

----------------------------------------------------------------------------
(* util/bytes.js: isMostlyPrintable *)

\* b === 9 || b === 10 || b === 13, else b >= 32 && b <= 126
IsPrintableByte(b) == b \in {9, 10, 13} \/ (b >= 32 /\ b <= 126)

\* the literal 0.85. The double nearest to 0.85 is also the double that the
\* division 17 / 20 yields, and no other quotient ok / length of a run of up
\* to MaxRunLen bytes lies within a rounding error of it: for these runs the
\* comparison of doubles is the comparison of the exact quotients
PrintableThreshold == Rat(17, 20)

\* no call of isMostlyPrintable is running
NoPrintRun == [pc |-> "idle", buf |-> <<>>, i |-> 0, ok |-> 0, result |-> FALSE]

\* isMostlyPrintable(buf) is entered: let ok = 0
PrintCall(buf) == [NoPrintRun EXCEPT !.pc = "loop", !.buf = buf]

\* for (const b of buf): one iteration
PrintLoop ==
  /\ printRun.pc = "loop"
  /\ printRun.i < Len(printRun.buf)
  /\ printRun' = [printRun EXCEPT
                    !.i = @ + 1,
                    !.ok = IF IsPrintableByte(printRun.buf[printRun.i + 1])
                           THEN @ + 1 ELSE @]
  /\ UNCHANGED <<pvars, tvars, udpSocket, adminHandle, crcRun, decoder,
                 adminReq, live, uintRun, decodedRun>>

\* return (buf.length > 0) && (ok / buf.length) > 0.85
PrintReturn ==
  /\ printRun.pc = "loop"
  /\ printRun.i = Len(printRun.buf)
  /\ printRun' = [printRun EXCEPT
                    !.pc = "returned",
                    !.result = /\ Len(printRun.buf) > 0
                               /\ ~RLeq(Rat(printRun.ok, Len(printRun.buf)),
                                        PrintableThreshold)]
  /\ UNCHANGED <<pvars, tvars, udpSocket, adminHandle, crcRun, decoder,
                 adminReq, live, uintRun, decodedRun>>

----------------------------------------------------------------------------
(* util/bytes.js: readUIntLE *)

\* a | b of two bytes, bit by bit
RECURSIVE BitOr(_, _)
BitOr(a, b) ==
  IF a = 0 THEN b
  ELSE IF b = 0 THEN a
  ELSE (IF (a % 2) + (b % 2) > 0 THEN 1 ELSE 0) + 2 * BitOr(a \div 2, b \div 2)

\* the bytes of a 32-bit integer: the operands of <<, | and >>> are 32-bit
\* integers, kept here as their four bytes, lowest first
WordBytes == 4
ZeroWord == [j \in 1..WordBytes |-> 0]

\* v | (byte << (8 * i)): the shift count of << is taken modulo 32, so the
\* byte goes to position i modulo 4 of the word
OrShifted(v, byte, i) == [v EXCEPT ![(i % WordBytes) + 1] = BitOr(@, byte)]

\* no call of readUIntLE is running
NoUIntRun == [pc |-> "idle", buf |-> <<>>, i |-> 0, v |-> ZeroWord]

\* readUIntLE(buf) is entered: if (!buf || buf.length === 0) return 0;
\* let v = 0
UIntCall(buf) ==
  [NoUIntRun EXCEPT !.pc = IF Len(buf) = 0 THEN "returned" ELSE "loop",
                    !.buf = buf]

\* for (let i = 0; i < buf.length; i++) v |= (buf[i] << (8*i)): one iteration
UIntLoop ==
  /\ uintRun.pc = "loop"
  /\ uintRun.i < Len(uintRun.buf)
  /\ uintRun' = [uintRun EXCEPT
                   !.i = @ + 1,
                   !.v = OrShifted(@, uintRun.buf[uintRun.i + 1], uintRun.i)]
  /\ UNCHANGED <<pvars, tvars, udpSocket, adminHandle, crcRun, decoder,
                 adminReq, live, printRun, decodedRun>>

\* return v >>> 0: the word read as an unsigned integer
UIntReturn ==
  /\ uintRun.pc = "loop"
  /\ uintRun.i = Len(uintRun.buf)
  /\ uintRun' = [uintRun EXCEPT !.pc = "returned"]
  /\ UNCHANGED <<pvars, tvars, udpSocket, adminHandle, crcRun, decoder,
                 adminReq, live, printRun, decodedRun>>

----------------------------------------------------------------------------
(* The decoder callback: the flat map decoded of a record's fields *)

\* a slot of decoded: undefined, a single value, or an array of values
NoSlot == [isArray |-> FALSE, values |-> <<>>]
Single(value) == [isArray |-> FALSE, values |-> <<value>>]
Array(values) == [isArray |-> TRUE, values |-> values]

\* the field names of the records
FieldNames == {"passingNumber", "tranCode"}

\* const decoded = {}
EmptyDecoded == [key \in FieldNames |-> NoSlot]

\* the third and later values of a name take the place of the second
DecodedPutReplaces(decoded, key, value) ==
  IF decoded[key] = NoSlot
  THEN [decoded EXCEPT ![key] = Single(value)]
  ELSE [decoded EXCEPT ![key] = Array(<<decoded[key].values[1], value>>)]

\* if (decoded[key] === undefined) decoded[key] = f.value;
\* else if (Array.isArray(decoded[key])) decoded[key].push(f.value);
\* else decoded[key] = [decoded[key], f.value]
DecodedPut(decoded, key, value) ==
  IF decoded[key] = NoSlot
  THEN [decoded EXCEPT ![key] = Single(value)]
  ELSE IF decoded[key].isArray
  THEN [decoded EXCEPT ![key] = Array(Append(decoded[key].values, value))]
  ELSE [decoded EXCEPT ![key] = Array(<<decoded[key].values[1], value>>)]

\* the callback has no record in hand
NoDecodedRun == [pc |-> "idle", fields |-> <<>>, i |-> 0, decoded |-> EmptyDecoded]

\* the callback reaches the loop with parsed.fields
DecodedCall(fields) == [NoDecodedRun EXCEPT !.pc = "loop", !.fields = fields]

\* for (const f of parsed.fields): one iteration; a field without a name or
\* without a value is passed over
DecodedLoop ==
  /\ decodedRun.pc = "loop"
  /\ decodedRun.i < Len(decodedRun.fields)
  /\ LET f == decodedRun.fields[decodedRun.i + 1]
     IN decodedRun' = [decodedRun EXCEPT
                         !.i = @ + 1,
                         !.decoded = IF f.tofName = "" \/ f.value = Undefined
                                     THEN @
                                     ELSE DecodedPut(@, f.tofName, f.value)]
  /\ UNCHANGED <<pvars, tvars, udpSocket, adminHandle, crcRun, decoder,
                 adminReq, live, printRun, uintRun>>

\* the loop is left: decoded is complete
DecodedDone ==
  /\ decodedRun.pc = "loop"
  /\ decodedRun.i = Len(decodedRun.fields)
  /\ decodedRun' = [decodedRun EXCEPT !.pc = "built"]
  /\ UNCHANGED <<pvars, tvars, udpSocket, adminHandle, crcRun, decoder,
                 adminReq, live, printRun, uintRun>>

\* no helper of util/bytes.js runs and no decoded map is being built
UtilsIdle ==
  /\ printRun = NoPrintRun
  /\ uintRun = NoUIntRun
  /\ decodedRun = NoDecodedRun

----------------------------------------------------------------------------
(* The framer of StreamP3Decoder: a rolling buffer of bytes *)

\* 0x01, 0x04, 0x10, the XOR of an escaped byte (0x20), the buffer's cap
SOH == 1
EOT == 4
DLE == 16
EscapeXor == 32
BufferCap == 65536

\* the bytes of buf from index k on
From(buf, k) == SubSeq(buf, k, Len(buf))

\* the index of the first SOH at or after k that no DLE precedes; 0 if none
RECURSIVE FindSoh(_, _)
FindSoh(buf, k) ==
  IF k > Len(buf) THEN 0
  ELSE IF buf[k] = SOH /\ (k = 1 \/ buf[k - 1] # DLE) THEN k
  ELSE FindSoh(buf, k + 1)

\* copy the bytes from index k on into the unescape buffer out: a DLE takes
\* the next byte with it (next XOR 0x20), a DLE at the tail waits for it, an
\* EOT ends the frame, a SOH restarts the framing
RECURSIVE Unescape(_, _, _)
Unescape(buf, k, out) ==
  IF k > Len(buf) THEN [kind |-> "incomplete", payload |-> out, at |-> k]
  ELSE IF buf[k] = DLE
    THEN IF k = Len(buf)
         THEN [kind |-> "incomplete", payload |-> out, at |-> k]
         ELSE Unescape(buf, k + 2, Append(out, Xor(buf[k + 1], EscapeXor)))
  ELSE IF buf[k] = EOT THEN [kind |-> "frame", payload |-> out, at |-> k]
  ELSE IF buf[k] = SOH THEN [kind |-> "restart", payload |-> out, at |-> k]
  ELSE Unescape(buf, k + 1, Append(out, buf[k]))

\* what is kept of a buffer without a frame start: a DLE at its tail
Resync(buf) ==
  IF buf # <<>> /\ buf[Len(buf)] = DLE THEN <<DLE>> ELSE <<>>

\* a scan that keeps nothing of an incomplete frame
RECURSIVE ScanForgetsPartial(_, _)
ScanForgetsPartial(buf, frames) ==
  LET p == FindSoh(buf, 1)
      u == Unescape(buf, p + 1, <<>>)
  IN IF p = 0 THEN [buffer |-> Resync(buf), frames |-> frames]
     ELSE IF u.kind = "frame"
       THEN ScanForgetsPartial(From(buf, u.at + 1), Append(frames, u.payload))
     ELSE IF u.kind = "restart" THEN ScanForgetsPartial(From(buf, u.at), frames)
     ELSE [buffer |-> <<>>, frames |-> frames]

\* steps 2 to 4: resync to the first SOH, unescape to the EOT, hand the
\* payload over and go on behind the EOT; an incomplete frame is kept from
\* its SOH on unless it exceeds the cap
RECURSIVE Scan(_, _)
Scan(buf, frames) ==
  LET p == FindSoh(buf, 1)
      u == Unescape(buf, p + 1, <<>>)
  IN IF p = 0 THEN [buffer |-> Resync(buf), frames |-> frames]
     ELSE IF u.kind = "frame"
       THEN Scan(From(buf, u.at + 1), Append(frames, u.payload))
     ELSE IF u.kind = "restart" THEN Scan(From(buf, u.at), frames)
     ELSE IF Len(buf) - p + 1 > BufferCap THEN Scan(From(buf, p + 1), frames)
     ELSE [buffer |-> From(buf, p), frames |-> frames]

\* decoder.push(chunk): append the chunk, then scan
push(d, chunk) ==
  LET s == Scan(d.buffer \o chunk, d.frames)
  IN [d EXCEPT !.buffer = s.buffer, !.frames = s.frames]

\* the bytes of a payload on the wire: 0x01, 0x04 and 0x10 are sent as DLE
\* and the byte XOR 0x20
RECURSIVE Escape(_)
Escape(payload) ==
  IF payload = <<>> THEN <<>>
  ELSE (IF Head(payload) \in {SOH, EOT, DLE}
        THEN <<DLE, Xor(Head(payload), EscapeXor)>>
        ELSE <<Head(payload)>>) \o Escape(Tail(payload))

\* a frame on the wire
WireFrame(payload) == <<SOH>> \o Escape(payload) \o <<EOT>>

\* a well-formed stream: the frames of the payloads, one after the other
RECURSIVE WireStream(_)
WireStream(payloads) ==
  IF payloads = <<>> THEN <<>>
  ELSE WireFrame(Head(payloads)) \o WireStream(Tail(payloads))

\* a decoder that has been handed nothing; bytewise: no chunk so far was
\* longer than one byte
NoDecoder ==
  [sent |-> <<>>, stream |-> <<>>, rest |-> <<>>, buffer |-> <<>>,
   frames |-> <<>>, bytewise |-> TRUE]

\* a new decoder and the stream the transport will deliver for the payloads
\* sent
NewDecoder(payloads) ==
  [NoDecoder EXCEPT !.sent = payloads, !.stream = WireStream(payloads),
                    !.rest = WireStream(payloads)]

\* the transport's 'data' (or 'message') handler: the next n bytes of the
\* stream arrive as one chunk
DecoderPush(n) ==
  /\ n <= Len(decoder.rest)
  /\ decoder' = [push(decoder, SubSeq(decoder.rest, 1, n)) EXCEPT
                   !.rest = From(decoder.rest, n + 1),
                   !.bytewise = @ /\ n = 1]
  /\ UNCHANGED <<pvars, tvars, udpSocket, adminHandle, crcRun, adminReq, live, uvars>>

----------------------------------------------------------------------------
(* The admin listener: the token middleware *)

\* JavaScript's null, and a header or query parameter the request lacks
Null == "null"
Absent == "absent"

\* req.headers.authorization || '' of a request without the header
NoAuthorization == [scheme |-> Absent, cred |-> ""]

\* a string is truthy unless it is empty: (v || null)
OrNull(v) == IF v = "" THEN Null ELSE v

\* (v || '').toString().trim() || null for a header or query value
TrimOrNull(v) == IF v = Absent THEN Null ELSE OrNull(v)

\* String.prototype.toLowerCase on the scheme of an Authorization header
toLowerCase(scheme) ==
  CASE scheme \in {"Bearer", "bearer", "BEARER"} -> "bearer"
    [] scheme \in {"Basic", "basic"} -> "basic"
    [] OTHER -> scheme

\* hdr.toLowerCase().startsWith('bearer ') ? hdr.slice(7).trim() : null
\* for the header "<scheme> <cred>"
Bearer(hdr) ==
  IF toLowerCase(hdr.scheme) = "bearer" THEN OrNull(hdr.cred) ELSE Null

\* a || b for values that are null or non-empty strings
Or(a, b) == IF a = Null THEN b ELSE a

\* const got = bearer || xTok || qTok
Got(req) ==
  Or(Or(Bearer(req.authorization), TrimOrNull(req.xAdminToken)),
     TrimOrNull(req.queryToken))

\* the listener with its token, serving no request
NoRequest(token) ==
  [token |-> token, stage |-> "none", authorization |-> NoAuthorization,
   xAdminToken |-> Absent, queryToken |-> Absent]

\* the Authorization headers, X-Admin-Token headers and ?token= parameters
\* of the requests
Credentials == {"secret", "other"}
AuthorizationHeaders ==
  {NoAuthorization} \cup
  [scheme : {"Bearer", "bearer", "Basic"}, cred : Credentials \cup {""}]
TokenValues == {Absent, ""} \cup Credentials

\* a request reaches the listener: express.json() has run, the token
\* middleware is next
AdminRequest(hdr, xTok, qTok) ==
  /\ adminHandle = "server"
  /\ ~exited
  /\ adminReq.stage = "none"
  /\ adminReq' = [adminReq EXCEPT !.stage = "auth", !.authorization = hdr,
                                  !.xAdminToken = xTok, !.queryToken = qTok]
  /\ UNCHANGED <<pvars, tvars, udpSocket, adminHandle, crcRun, decoder, live, uvars>>

\* the token middleware: next() without a configured token or with the
\* right one, 401 otherwise
TokenMiddleware ==
  /\ adminReq.stage = "auth"
  /\ adminReq' = [adminReq EXCEPT !.stage =
        IF adminReq.token = Null THEN "handler"
        ELSE IF Got(adminReq) # Null /\ Got(adminReq) = adminReq.token
          THEN "handler"
        ELSE "401"]
  /\ UNCHANGED <<pvars, tvars, udpSocket, adminHandle, crcRun, decoder, live, uvars>>

\* the response has been sent (by an endpoint handler or as 401)
AdminResponse ==
  /\ adminReq.stage \in {"handler", "401"}
  /\ adminReq' = NoRequest(adminReq.token)
  /\ UNCHANGED <<pvars, tvars, udpSocket, adminHandle, crcRun, decoder, live, uvars>>

----------------------------------------------------------------------------
(* PUT /admin/api/settings: JSON values as trees, dotted paths as sequences
   of keys (keys are non-empty and hold no dot) *)

\* a function with no key
NoFields == [k \in {} |-> Null]

\* a JSON scalar (string, number, boolean, null) and a JSON object
Val(v) == [t |-> "val", v |-> v, f |-> NoFields]
Obj(f) == [t |-> "obj", v |-> "", f |-> f]

\* the object with the given <<key, value>> pairs
ObjOf(pairs) ==
  Obj([k \in {x[1] : x \in pairs} |-> CHOOSE v \in {x[2] : x \in pairs} : <<k, v>> \in pairs])

\* isPlainObject (arrays are not modelled)
isPlainObject(x) == x.t = "obj"

\* a setByPath that leaves a value that is no object where it is and gives up
RECURSIVE setByPathKeepsScalars(_, _, _)
setByPathKeepsScalars(obj, parts, value) ==
  LET k == Head(parts)
      has == k \in DOMAIN obj.f
      rest == [j \in DOMAIN obj.f \ {k} |-> obj.f[j]]
  IN IF Len(parts) = 1 THEN Obj((k :> value) @@ rest)
     ELSE IF has /\ ~isPlainObject(obj.f[k]) THEN obj
     ELSE Obj((k :> setByPathKeepsScalars(IF has THEN obj.f[k] ELSE Obj(NoFields),
                                          Tail(parts), value)) @@ rest)

\* setByPath(obj, p, value) for p = parts.join('.'): a missing key and a value
\* that is no object are replaced by {} on the way down
RECURSIVE setByPath(_, _, _)
setByPath(obj, parts, value) ==
  LET k == Head(parts)
      has == k \in DOMAIN obj.f
      rest == [j \in DOMAIN obj.f \ {k} |-> obj.f[j]]
      cur == IF has /\ isPlainObject(obj.f[k]) THEN obj.f[k] ELSE Obj(NoFields)
  IN IF Len(parts) = 1 THEN Obj((k :> value) @@ rest)
     ELSE Obj((k :> setByPath(cur, Tail(parts), value)) @@ rest)

\* the <<path, value>> pairs flattenPatch collects below prefix
RECURSIVE FlatPairs(_, _)
FlatPairs(prefix, obj) ==
  UNION {IF isPlainObject(obj.f[k])
         THEN FlatPairs(Append(prefix, k), obj.f[k])
         ELSE {<<Append(prefix, k), obj.f[k]>>} : k \in DOMAIN obj.f}

\* flattenPatch(prefix, obj, {}): the leaf values by path
flattenPatch(prefix, obj) ==
  LET pairs == FlatPairs(prefix, obj)
  IN [p \in {x[1] : x \in pairs} |-> CHOOSE v \in {x[2] : x \in pairs} : <<p, v>> \in pairs]

\* the loop of applyAllowedPatch over the entries of flat that remain
RECURSIVE ApplyEntries(_, _, _, _)
ApplyEntries(c, flat, todo, allowList) ==
  IF todo = {} THEN c
  ELSE LET p == CHOOSE q \in todo : TRUE
       IN ApplyEntries(IF p \in allowList THEN setByPath(c, p, flat[p]) ELSE c,
                       flat, todo \ {p}, allowList)

\* applyAllowedPatch(cfg, patch, allowList): cfg is changed in place
applyAllowedPatch(c, patch, allowList) ==
  LET flat == flattenPatch(<<>>, patch)
  IN [cfg |-> ApplyEntries(c, flat, DOMAIN flat, allowList),
      applied |-> {p \in DOMAIN flat : p \in allowList},
      rejected |-> {p \in DOMAIN flat : p \notin allowList}]

\* const allowList of the PUT handler
AllowList ==
  {<<"admin", k>> : k \in {"enabled", "host", "port", "token"}}
  \cup {<<"post", k>> : k \in {"enabled", "baseUrl", "path", "method", "timeoutMs",
                              "retries", "retryDelayMs", "retryBackoffMultiplier",
                              "queueDrainMaxPerTick"}}
  \cup {<<"timer", k>> : k \in {"enabled", "baseUrl", "path", "intervalSec",
                               "timeoutMs", "retries", "retryDelayMs",
                               "retryBackoffMultiplier"}}
  \cup {<<"logging", k>> : k \in {"dir", "suppressStatus"}}
  \cup {<<"defaults", k>> : k \in {"mode", "tcpHost", "tcpPort", "udpListenPort",
                                  "connectTimeoutMs"}}
  \cup {<<"decoder", "reconnect", k>> : k \in {"baseDelayMs", "maxDelayMs",
                                              "backoffFactor", "jitterRatio",
                                              "connectTimeoutMs"}}

\* no PUT has been answered
NoResponse ==
  [status |-> 0, applied |-> {}, rejected |-> {}, persist |-> FALSE,
   patch |-> Obj(NoFields), before |-> Obj(NoFields)]

\* the live configuration c as loaded from config.json
Settings(c) == [config |-> c, file |-> c, puts |-> 0, res |-> NoResponse]

\* an empty configuration, no PUT answered
NoSettings == Settings(Obj(NoFields))

\* the PUT handler: the patch is applied to the live configuration, then the
\* configuration is written unless ?persist=false; a failed write is
\* answered 400 (writeFails stands for a write that would fail). res records
\* the answer with the request and the configuration before it.
PutSettings(patch, persist, writeFails) ==
  LET r == applyAllowedPatch(live.config, patch, AllowList)
      threw == persist /\ writeFails
  IN /\ adminHandle = "server"
     /\ ~exited
     /\ live.puts < MaxPuts
     /\ writeFails => persist
     /\ live' = [config |-> r.cfg,
                 puts |-> live.puts + 1,
                 file |-> IF persist /\ ~writeFails THEN r.cfg ELSE live.file,
                 res |-> [status |-> IF threw THEN 400 ELSE 200,
                          applied |-> IF threw THEN {} ELSE r.applied,
                          rejected |-> IF threw THEN {} ELSE r.rejected,
                          persist |-> persist,
                          patch |-> patch,
                          before |-> live.config]]
     /\ UNCHANGED <<pvars, tvars, udpSocket, adminHandle, crcRun, decoder, adminReq, uvars>>

----------------------------------------------------------------------------
(* Startup and the specification *)

\* entries a previous run left in the file (records 0 and -1 of that run): one
\* replayed once and answered 503, one enqueued after a 404 and not yet replayed
OldEntry1 ==
  JsonEntry([NewEntry(1, Payload(0, TRUE, FALSE), HttpError(503))
               EXCEPT !.lastTriedAt = "iso", !.attempts = 1])
OldEntry2 == JsonEntry(NewEntry(2, Payload(-1, TRUE, FALSE), HttpError(404)))

\* the file the constructor may find: none, a blank one, one that is no JSON,
\* a JSON object, or the array a previous run wrote
StartupFiles ==
  {MissingFile, FileOf(BlankText), FileOf(GarbageText),
   FileOf(JsonText("object", <<>>)),
   FileOf(JsonText("array", <<>>)),
   FileOf(JsonText("array", <<OldEntry1, OldEntry2>>))}

\* retryDelayMs: cfg.post.retryDelayMs ?? 500
DefaultRetryDelayMs == 500
\* retryBackoffMultiplier: cfg.post.retryBackoffMultiplier ?? 2
DefaultRetryBackoffMultiplier == 2
\* retries: cfg.post.retries ?? 5
DefaultRetries == 5

\* cfg.post.retries, cfg.post.queueDrainMaxPerTick, post enabled,
\* suppressStatus, argv.debug (left at its default, false: payload.raw is
\* undefined), cfg.post.retryDelayMs and cfg.post.retryBackoffMultiplier (at
\* their defaults).  post.baseUrl is set: buildUrl does not throw.
\* Every retry and drain setting is drawn with posting on and suppression
\* off; the two switches are drawn in full with the smallest settings (they
\* are read when a record arrives, before any request is made).
Configs ==
  [retries : 0..MaxRetries, drainMaxPerTick : 1..MaxDrainPerTick,
   postEnabled : {TRUE}, suppressStatus : {FALSE}, debug : {FALSE},
   retryDelayMs : {RInt(DefaultRetryDelayMs)},
   retryBackoffMultiplier : {RInt(DefaultRetryBackoffMultiplier)}]
  \cup
  [retries : {0}, drainMaxPerTick : {1},
   postEnabled : BOOLEAN, suppressStatus : BOOLEAN, debug : {FALSE},
   retryDelayMs : {RInt(DefaultRetryDelayMs)},
   retryBackoffMultiplier : {RInt(DefaultRetryBackoffMultiplier)}]

\* main(): let stopping = false; no shutdown has been requested; the admin
\* listener runs (admin.enabled is not false)
ProcessInit ==
  /\ stopping = FALSE
  /\ shut = "none"
  /\ exited = FALSE
  /\ adminHandle = "server"

\* a link that delivers every frame intact, a disk that takes every write,
\* the counters of createState()
QuietInit ==
  /\ noisy = FALSE
  /\ faults = 0
  /\ unhandled = FALSE
  /\ msg = NoMessages

\* no CRC is being computed, no bytes are pushed into the framer, the admin
\* listener serves no request
ToolsIdle ==
  /\ crcRun = NoCrcRun
  /\ decoder = NoDecoder
  /\ adminReq = NoRequest(Null)
  /\ live = NoSettings
  /\ UtilsIdle

\* the supervisor's variables where no TCP client runs (UDP mode)
NoSupervisor ==
  /\ tcpSocket = NoSocket
  /\ tcpReconnectTimer = NoTimer
  /\ connectTimer = FALSE
  /\ attempt = 0
  /\ target = "A"
  /\ rcfg = DefaultRcfg
  /\ tev = TEvent("init", FALSE, FALSE)
  /\ udpSocket = UdpSocket("listening")

\* main() up to the first event: new PostQueue(...), postQueue.start()
Init ==
  /\ cfg \in Configs
  /\ file \in StartupFiles
  /\ queue = safeReadJson(file).value
  /\ startupThrew = safeReadJson(file).threw
  /\ draining = FALSE
  /\ timer = cfg.postEnabled
  /\ drains = [s \in Slots |-> IdleDrain]
  /\ h = [r \in Records |-> IdleHandler]
  /\ nrec = 0
  /\ nextId = Len(queue) + 1
  /\ persisted = FALSE
  /\ replayed = <<>>
  /\ enqLog = <<>>
  /\ ev = Event("init", NoError)
  /\ QuietInit
  /\ ProcessInit
  /\ NoSupervisor
  /\ ToolsIdle

Next ==
  \/ RecordArrives
  \/ \E r \in Activations, status \in Statuses : InlineResponse(r, status)
  \/ \E r \in Activations : InlineError(r)
  \/ \E r \in Activations : InlineWake(r)
  \/ DrainTick
  \/ \E s \in Slots, status \in Statuses : DrainResponse(s, status)
  \/ \E s \in Slots : DrainError(s)
  \/ \E s \in Slots : DrainWake(s)

Spec == Init /\ [][Next]_vars

\* a configuration with one inline retry and one replay per drain
RetryOnceConfig ==
  [retries |-> 1, drainMaxPerTick |-> 1, postEnabled |-> TRUE,
   suppressStatus |-> FALSE, debug |-> FALSE,
   retryDelayMs |-> RInt(DefaultRetryDelayMs),
   retryBackoffMultiplier |-> RInt(DefaultRetryBackoffMultiplier)]

\* the pipeline at startup with configuration c, queue file f and n frames
\* to come
PipelineInit(c, f, n) ==
  /\ cfg = c
  /\ file = f
  /\ queue = safeReadJson(f).value
  /\ startupThrew = safeReadJson(f).threw
  /\ draining = FALSE
  /\ timer = c.postEnabled
  /\ drains = [s \in Slots |-> IdleDrain]
  /\ h = [r \in 1..n |-> IdleHandler]
  /\ nrec = 0
  /\ nextId = Len(safeReadJson(f).value) + 1
  /\ persisted = FALSE
  /\ replayed = <<>>
  /\ enqLog = <<>>
  /\ ev = Event("init", NoError)

\* TCP mode after main() has called connectOnce(); no frame arrives
TcpInit ==
  /\ PipelineInit(RetryOnceConfig, MissingFile, 0)
  /\ QuietInit
  /\ ProcessInit
  /\ ToolsIdle
  /\ udpSocket = NoUdp
  /\ tcpSocket = NewSocket("A")
  /\ tcpReconnectTimer = NoTimer
  /\ connectTimer = TRUE
  /\ attempt = 0
  /\ target = "A"
  /\ rcfg \in ReconnectConfigs
  /\ tev = TEvent("connectOnce", FALSE, TRUE)

\* UDP mode with an empty queue and MaxFrames frames to come
FrameInit ==
  /\ PipelineInit(RetryOnceConfig, MissingFile, MaxFrames)
  /\ QuietInit
  /\ ProcessInit
  /\ NoSupervisor
  /\ ToolsIdle

\* the delivery pipeline fed several frames
FrameSpec == FrameInit /\ [][Next]_vars

\* UDP mode started on a queue file of two entries
ShutdownInit ==
  /\ PipelineInit(RetryOnceConfig,
                  FileOf(JsonText("array", <<OldEntry1, OldEntry2>>)),
                  MaxRecords)
  /\ QuietInit
  /\ ProcessInit
  /\ NoSupervisor
  /\ ToolsIdle

ShutdownNext ==
  \/ Next
  \/ GracefulShutdown
  \/ GracefulShutdownResume
  \/ ProcessExit

\* no inline retry and one replay per drain, with posting and the
\* suppression of Status records switched either way
RecordConfigs ==
  {[RetryOnceConfig EXCEPT !.retries = 0, !.postEnabled = p,
                           !.suppressStatus = q] :
     p \in BOOLEAN, q \in BOOLEAN}

\* UDP mode with an empty queue, MaxFrames frames to come and a link on
\* which a frame's CRC check can fail
RecordInit ==
  /\ \E c \in RecordConfigs : PipelineInit(c, MissingFile, MaxFrames)
  /\ noisy = TRUE
  /\ faults = 0
  /\ unhandled = FALSE
  /\ msg = NoMessages
  /\ ProcessInit
  /\ NoSupervisor
  /\ ToolsIdle

\* with post.retries = 0 postWithRetries never sleeps: no wake-up is pending
RecordNext ==
  \/ RecordArrives
  \/ \E r \in Activations, status \in Statuses : InlineResponse(r, status)
  \/ \E r \in Activations : InlineError(r)
  \/ DrainTick
  \/ \E s \in Slots, status \in Statuses : DrainResponse(s, status)
  \/ \E s \in Slots : DrainError(s)

\* the delivery pipeline fed frames of every kind
RecordSpec == RecordInit /\ [][RecordNext]_vars

\* posting on, no inline retry, one replay per drain
NoRetryConfig == [RetryOnceConfig EXCEPT !.retries = 0]

\* UDP mode started on a queue file of two entries, on a disk on which up to
\* MaxFaults of the coming writes of the queue file fail
WriteFailInit ==
  /\ PipelineInit(NoRetryConfig,
                  FileOf(JsonText("array", <<OldEntry1, OldEntry2>>)),
                  MaxRecords)
  /\ noisy = FALSE
  /\ faults \in 0..MaxFaults
  /\ unhandled = FALSE
  /\ msg = NoMessages
  /\ ProcessInit
  /\ NoSupervisor
  /\ ToolsIdle

\* the delivery pipeline on a disk that refuses writes
WriteFailSpec == WriteFailInit /\ [][RecordNext]_vars

\* UDP mode after main() has called udpSocket.bind(targetPort, targetIp),
\* with the admin listener enabled or not
UdpInit ==
  /\ PipelineInit(NoRetryConfig, MissingFile, MaxRecords)
  /\ QuietInit
  /\ stopping = FALSE
  /\ shut = "none"
  /\ exited = FALSE
  /\ adminHandle \in {"server", "stub"}
  /\ tcpSocket = NoSocket
  /\ tcpReconnectTimer = NoTimer
  /\ connectTimer = FALSE
  /\ attempt = 0
  /\ target = "A"
  /\ rcfg = DefaultRcfg
  /\ tev = TEvent("init", FALSE, FALSE)
  /\ udpSocket = UdpSocket("binding")
  /\ ToolsIdle

UdpNext ==
  \/ UdpListening
  \/ UdpBindFails
  \/ UdpError
  \/ UdpMessage
  \/ \E r \in Activations, status \in Statuses : InlineResponse(r, status)
  \/ \E r \in Activations : InlineError(r)
  \/ DrainTick
  \/ \E s \in Slots, status \in Statuses : DrainResponse(s, status)
  \/ \E s \in Slots : DrainError(s)

\* the UDP listener with the delivery pipeline behind it
UdpSpec == UdpInit /\ [][UdpNext]_vars

\* drainMaxPerTick: cfg.post?.queueDrainMaxPerTick ?? 5
DefaultDrainMaxPerTick == 5

\* an entry a previous run enqueued and never replayed
QueuedEntry(id) == JsonEntry(NewEntry(id, Payload(-id, TRUE, FALSE), HttpError(503)))

\* a restart on a file of three entries, with the default drainMaxPerTick
\* and no frame arriving
RestartInit ==
  /\ PipelineInit([RetryOnceConfig EXCEPT
                     !.drainMaxPerTick = DefaultDrainMaxPerTick],
                  FileOf(JsonText("array",
                           <<QueuedEntry(1), QueuedEntry(2), QueuedEntry(3)>>)),
                  0)
  /\ QuietInit
  /\ ProcessInit
  /\ NoSupervisor
  /\ ToolsIdle

\* no frame arrives: only the drain's callbacks run
RestartNext ==
  \/ DrainTick
  \/ \E s \in Slots, status \in Statuses : DrainResponse(s, status)
  \/ \E s \in Slots : DrainError(s)
  \/ \E s \in Slots : DrainWake(s)

\* the drain after a restart on a queue of three entries
RestartSpec == RestartInit /\ [][RestartNext]_vars

\* configurations of the replay: post.retries and post.queueDrainMaxPerTick
\* as the configuration file gives them (cfg.post?.queueDrainMaxPerTick ?? 5
\* takes a 0 as it is)
ReplayConfigs ==
  {[RetryOnceConfig EXCEPT !.retries = r, !.drainMaxPerTick = m] :
     r \in 0..MaxRetries, m \in 0..MaxDrainPerTick}

\* the queue files a previous run left: up to MaxQueued entries, the head
\* tried before or not
ReplayQueues ==
  {[k \in 1..n |-> IF k = 1 /\ tried
                   THEN [QueuedEntry(k) EXCEPT !.lastTriedAt = "iso", !.attempts = 1]
                   ELSE QueuedEntry(k)] :
     n \in 0..MaxQueued, tried \in BOOLEAN}

\* a start on such a file with no frame to come
ReplayInit ==
  /\ \E c \in ReplayConfigs, q \in ReplayQueues :
       PipelineInit(c, FileOf(JsonText("array", q)), 0)
  /\ QuietInit
  /\ ProcessInit
  /\ NoSupervisor
  /\ ToolsIdle

\* the statuses of a POST that succeeded
OkStatuses == {status \in Statuses : IsOk(status)}

\* the interval fires and every POST is answered 2xx
ReplayNext ==
  \/ DrainTick
  \/ \E s \in Slots, status \in OkStatuses : DrainResponse(s, status)

\* setInterval keeps firing and every POST gets its answer
ReplayLiveSpec ==
  /\ ReplayInit
  /\ [][ReplayNext]_vars
  /\ WF_vars(DrainTick)
  /\ WF_vars(\E s \in Slots, status \in OkStatuses : DrainResponse(s, status))

\* retryDelayMs and retryBackoffMultiplier as config.json may set them: the
\* defaults, a multiplier of 1.5 on small delays, a delay of half a
\* millisecond, no growth, and a multiplier below 1
BackoffSettings ==
  {<<RInt(DefaultRetryDelayMs), RInt(DefaultRetryBackoffMultiplier)>>,
   <<RInt(3), Rat(3, 2)>>, <<RInt(1), Rat(3, 2)>>, <<Rat(1, 2), RInt(2)>>,
   <<RInt(500), RInt(1)>>, <<RInt(500), Rat(1, 2)>>}

\* the default configuration, and every setting with 0..MaxSleeps retries
BackoffConfigs ==
  {[RetryOnceConfig EXCEPT !.retries = DefaultRetries]}
  \cup {[RetryOnceConfig EXCEPT !.retries = n, !.retryDelayMs = b[1],
                                !.retryBackoffMultiplier = b[2]] :
          n \in 0..MaxSleeps, b \in BackoffSettings}

\* UDP mode with an empty queue and one frame to come
BackoffInit ==
  /\ \E c \in BackoffConfigs : PipelineInit(c, MissingFile, 1)
  /\ QuietInit
  /\ ProcessInit
  /\ NoSupervisor
  /\ ToolsIdle

\* the delivery pipeline under the retry settings
BackoffSpec == BackoffInit /\ [][Next]_vars

\* the bridge at rest: nothing queued, no frame to come, no connection
BridgeIdle ==
  /\ PipelineInit(NoRetryConfig, MissingFile, 0)
  /\ QuietInit
  /\ ProcessInit
  /\ NoSupervisor

\* byte values the buffers are made of: 0x00, 0x01, '1', 0x80, 0xFF
TestBytes == {0, 1, 49, 128, 255}

\* the ASCII digits "123456789"
CheckString == <<49, 50, 51, 52, 53, 54, 55, 56, 57>>

\* the buffers crc16Ccitt is called with
Buffers == UNION {[1..k -> TestBytes] : k \in 0..MaxBufLen} \cup {CheckString}

\* one call of crc16Ccitt on any of the buffers
CrcInit ==
  /\ BridgeIdle
  /\ UtilsIdle
  /\ \E buf \in Buffers : crcRun = CrcCall(buf)
  /\ decoder = NoDecoder
  /\ adminReq = NoRequest(Null)
  /\ live = NoSettings

CrcNext == CrcLoop \/ CrcReturn

CrcSpec == CrcInit /\ [][CrcNext]_vars

\* payload bytes: the three that are escaped and one that is not ('A')
PayloadBytes == {SOH, EOT, DLE, 65}

\* the payloads of the frames sent
Payloads == UNION {[1..k -> PayloadBytes] : k \in 0..MaxPayloadLen}

\* one frame or two
PayloadLists == UNION {[1..k -> Payloads] : k \in 1..2}

\* the longest stream of two frames
MaxStreamLen == 2 * (2 + 2 * MaxPayloadLen)

\* the transport is about to deliver a stream of one or two frames
FramerInit ==
  /\ BridgeIdle
  /\ UtilsIdle
  /\ \E payloads \in PayloadLists : decoder = NewDecoder(payloads)
  /\ crcRun = NoCrcRun
  /\ adminReq = NoRequest(Null)
  /\ live = NoSettings

\* the stream arrives in chunks of any sizes
FramerNext == \E n \in 1..MaxStreamLen : DecoderPush(n)

FramerSpec == FramerInit /\ [][FramerNext]_vars

\* the admin listener started with admin.token unset or set
AdminInit ==
  /\ BridgeIdle
  /\ UtilsIdle
  /\ \E token \in {Null, "secret"} : adminReq = NoRequest(token)
  /\ crcRun = NoCrcRun
  /\ decoder = NoDecoder
  /\ live = NoSettings

AdminNext ==
  \/ \E hdr \in AuthorizationHeaders, xTok \in TokenValues, qTok \in TokenValues :
       AdminRequest(hdr, xTok, qTok)
  \/ TokenMiddleware
  \/ AdminResponse

\* requests to the admin listener, one at a time
AdminSpec == AdminInit /\ [][AdminNext]_vars

\* config.json as shipped (in part), an empty one, and two in which a
\* section is no object: "post": null and "decoder": {"reconnect": false}
ConfigFiles ==
  {ObjOf({<<"post", ObjOf({<<"retries", Val("a")>>, <<"enabled", Val("a")>>})>>,
          <<"decoder", ObjOf({<<"reconnect", ObjOf({<<"baseDelayMs", Val("a")>>})>>})>>,
          <<"site", Val("a")>>}),
   Obj(NoFields),
   ObjOf({<<"post", Val(Null)>>, <<"site", Val("a")>>}),
   ObjOf({<<"decoder", ObjOf({<<"reconnect", Val("false")>>})>>})}

\* what a patch holds under "post", under "decoder" and at other keys
PostPatches ==
  {{},
   {<<"post", Val("b")>>},
   {<<"post", Obj(NoFields)>>},
   {<<"post", ObjOf({<<"retries", Val("b")>>})>>},
   {<<"post", ObjOf({<<"secret", Val("b")>>})>>},
   {<<"post", ObjOf({<<"retries", Val(Null)>>, <<"secret", Val("b")>>})>>}}
DecoderPatches ==
  {{},
   {<<"decoder", ObjOf({<<"reconnect", Val("b")>>})>>},
   {<<"decoder", ObjOf({<<"reconnect", ObjOf({<<"baseDelayMs", Val("b")>>})>>})>>},
   {<<"decoder", ObjOf({<<"reconnect", ObjOf({<<"baseDelayMs", Val("b")>>,
                                               <<"evil", Val("b")>>})>>})>>}}
OtherPatches ==
  {{}, {<<"site", Val("b")>>}, {<<"timer", ObjOf({<<"enabled", Val("b")>>})>>}}

\* the request bodies
Patches ==
  {ObjOf(a \cup b \cup c) : a \in PostPatches, b \in DecoderPatches, c \in OtherPatches}

\* the admin listener of a bridge started on one of the configurations
SettingsInit ==
  /\ BridgeIdle
  /\ UtilsIdle
  /\ \E c \in ConfigFiles : live = Settings(c)
  /\ crcRun = NoCrcRun
  /\ decoder = NoDecoder
  /\ adminReq = NoRequest(Null)

SettingsNext ==
  \E patch \in Patches, persist \in BOOLEAN, writeFails \in BOOLEAN :
    PutSettings(patch, persist, writeFails)

\* PUT /admin/api/settings, up to MaxPuts times
SettingsSpec == SettingsInit /\ [][SettingsNext]_vars

\* the byte runs handed to isMostlyPrintable: p times one byte, then q times
\* another, out of the bytes at the edges of the printable ranges
EdgeBytes == {8, 9, 10, 11, 13, 31, 32, 126, 127}

ByteRuns ==
  UNION {{[k \in 1..(p + q) |-> IF k <= p THEN a ELSE b] :
            a \in EdgeBytes, b \in EdgeBytes, q \in 0..(MaxRunLen - p)} :
         p \in 0..MaxRunLen}

PrintableInit ==
  /\ BridgeIdle
  /\ \E buf \in ByteRuns : printRun = PrintCall(buf)
  /\ uintRun = NoUIntRun
  /\ decodedRun = NoDecodedRun
  /\ crcRun = NoCrcRun
  /\ decoder = NoDecoder
  /\ adminReq = NoRequest(Null)
  /\ live = NoSettings

PrintableNext == PrintLoop \/ PrintReturn

PrintableSpec == PrintableInit /\ [][PrintableNext]_vars

\* the field data handed to readUIntLE: up to MaxUIntLen bytes of 0x00, 0x01
\* and 0xFF
UIntBytes == {0, 1, 255}

UIntBuffers == UNION {[1..n -> UIntBytes] : n \in 0..MaxUIntLen}

UIntInit ==
  /\ BridgeIdle
  /\ \E buf \in UIntBuffers : uintRun = UIntCall(buf)
  /\ printRun = NoPrintRun
  /\ decodedRun = NoDecodedRun
  /\ crcRun = NoCrcRun
  /\ decoder = NoDecoder
  /\ adminReq = NoRequest(Null)
  /\ live = NoSettings

UIntNext == UIntLoop \/ UIntReturn

UIntSpec == UIntInit /\ [][UIntNext]_vars

\* the fields of a record: a name of the tables or none, a value or none
ParsedFields ==
  [tofName : FieldNames \cup {""}, value : {Undefined, "17", "2a"}]

FieldLists == UNION {[1..n -> ParsedFields] : n \in 0..MaxFields}

DecodedInit ==
  /\ BridgeIdle
  /\ \E fields \in FieldLists : decodedRun = DecodedCall(fields)
  /\ printRun = NoPrintRun
  /\ uintRun = NoUIntRun
  /\ crcRun = NoCrcRun
  /\ decoder = NoDecoder
  /\ adminReq = NoRequest(Null)
  /\ live = NoSettings

DecodedNext == DecodedLoop \/ DecodedDone

DecodedSpec == DecodedInit /\ [][DecodedNext]_vars

\* the delivery pipeline with shutdown
ShutdownSpec == ShutdownInit /\ [][ShutdownNext]_vars

TcpNext ==
  \/ TcpConnected
  \/ \E u \in MathRandom : TcpConnectFails(u)
  \/ \E u \in MathRandom : TcpCloses(u)
  \/ \E u \in MathRandom : ConnectTimeout(u)
  \/ ReconnectTimerFires
  \/ \E new \in Targets, u \in MathRandom : SetTarget(new, u)
  \/ GracefulShutdown
  \/ GracefulShutdownResume
  \/ ProcessExit
  \/ Sigint

\* the TCP supervisor with shutdown
TcpSpec == TcpInit /\ [][TcpNext]_vars

\* timers fire and adminHandle.stop() resolves
TcpLiveSpec ==
  /\ TcpSpec
  /\ WF_vars(ReconnectTimerFires)
  /\ WF_vars(GracefulShutdownResume)
  /\ WF_vars(ProcessExit)

----------------------------------------------------------------------------
(* Properties *)

Range(f) == {f[i] : i \in DOMAIN f}

\* enqueue() calls made for record r
EnqCount(r) == Cardinality({i \in 1..Len(enqLog) : enqLog[i] = r})

\* the ids of the enqueue() calls made for record r
EnqIds(r) ==
  {nextId - 1 - Len(enqLog) + i : i \in {j \in 1..Len(enqLog) : enqLog[j] = r}}

\* the array a reload of the file yields
Reloaded == safeReadJson(file).value

\* record r parsed, was not suppressed, and posting is enabled
Delivered(r) ==
  /\ cfg.postEnabled
  /\ h[r].kind \in RecordKinds \ {"parseError"}
  /\ ~(cfg.suppressStatus /\ isStatusRecord(h[r].kind))

C2_LeavesOnlyAfterItsReplay ==
  \A id \in 1..(nextId - 1) :
    \/ id \in Range(replayed)
    \/ id \in Ids(queue) /\ id \in Ids(Reloaded)

\* a replay succeeded after an enqueue ran during its await, and the drain goes on
C2_Witness ==
  \E s \in Slots :
    /\ drains[s].active /\ drains[s].grew
    /\ replayed # <<>>
    /\ Len(queue) >= 1

\* C3: replays succeed in enqueue order: the ids replayed so far are in
\* increasing order, and no entry still queued was enqueued before one that
\* has been replayed.
C3_ReplayedInEnqueueOrder ==
  /\ \A i, j \in 1..Len(replayed) : i < j => replayed[i] < replayed[j]
  /\ \A id \in Ids(queue) : \A i \in 1..Len(replayed) : replayed[i] < id

\* the entries loaded from the file and then one enqueued by this run were
\* replayed
C3_Witness ==
  /\ Len(replayed) >= 3
  /\ enqLog # <<>>

ActiveDrains == {s \in Slots : drains[s].active}

\* C4: at most one drain executes at a time, the flag is set exactly while one
\* does, and a drain() called while one is in flight changes neither the
\* queue, nor the file, nor any drain (so it calls no postFn).
C4_SingleFlight ==
  [][/\ Cardinality(ActiveDrains') <= 1
     /\ draining' <=> ActiveDrains' # {}
     /\ (ev'.name = "drainCall" /\ draining) =>
          UNCHANGED <<queue, file, drains, draining, replayed>>]_vars

\* drain() was called while a drain slept inside its postFn
C4_Witness ==
  /\ ev.name = "drainCall"
  /\ \E s \in Slots : drains[s].active /\ drains[s].pw.pc = "sleep"

\* C5: the step in which the replay of the head entry fails leaves that entry
\* at the head with attempts one above their value before this replay and
\* with lastError naming the failure, writes the queue to the file, and ends
\* the drain; no entry behind the head was handed to postFn by that drain or
\* is changed by the step.
C5_FailureEndsDrain ==
  [][ev'.name = "drainFail" =>
       \E s \in ActiveDrains :
         LET d == drains[s] IN
         /\ queue' # <<>>
         /\ queue'[1].id = d.entry
         /\ queue'[1].attempts = d.att0 + 1
         /\ queue'[1].lastError = ev'.err
         /\ ev'.err.kind \in {"HTTP", "message"}
         /\ SameQueue(safeReadJson(file').value, queue')
         /\ ~drains'[s].active
         /\ ~draining'
         /\ Len(queue') = Len(queue)
         /\ \A i \in 2..Len(queue') :
              queue'[i] = queue[i] /\ queue'[i].id \notin d.tried]_vars

\* a replay just failed with entries waiting behind the head
C5_Witness ==
  /\ ev.name = "drainFail"
  /\ Len(queue) >= 2
  /\ queue[1].attempts >= 2
  /\ ~draining

\* C6: one drain calls postFn at most drainMaxPerTick times and removes at
\* most drainMaxPerTick entries, and the entry it has handed to postFn is the
\* one at the head of the queue.
C6_AtMostMaxPerDrain ==
  \A s \in Slots :
    /\ drains[s].calls <= cfg.drainMaxPerTick
    /\ drains[s].processed <= cfg.drainMaxPerTick
    /\ drains[s].active =>
         /\ queue # <<>>
         /\ queue[1].id = drains[s].entry
         /\ drains[s].processed < cfg.drainMaxPerTick

\* a drain is at its last permitted call while more entries wait
C6_Witness ==
  \E s \in Slots :
    /\ drains[s].active
    /\ cfg.drainMaxPerTick >= 2
    /\ drains[s].calls = cfg.drainMaxPerTick
    /\ Len(queue) >= 2

\* C7: a step that calls enqueue() appends exactly one entry, with a fresh id
\* and attempts 0, behind the entries already queued, and the file then
\* reloads to the in-memory queue.
C7_EnqueueAppendsAndPersists ==
  [][Len(enqLog') > Len(enqLog) =>
       /\ Len(queue') = Len(queue) + 1
       /\ SubSeq(queue', 1, Len(queue)) = queue
       /\ queue'[Len(queue')].attempts = 0
       /\ queue'[Len(queue')].id = nextId
       /\ queue'[Len(queue')].id \notin Ids(queue)
       /\ queue'[Len(queue')].data.rec = enqLog'[Len(enqLog')]
       /\ file'.exists
       /\ SameQueue(safeReadJson(file').value, queue')]_vars

\* an enqueue ran while a drain awaited the replay of the head entry
C7_Witness ==
  /\ Len(queue) >= 2
  /\ queue[Len(queue)].id = nextId - 1
  /\ queue[Len(queue)].attempts = 0
  /\ enqLog # <<>>
  /\ queue[1].attempts >= 1
  /\ \E s \in Slots : drains[s].active /\ drains[s].mark < nextId
  /\ SameQueue(Reloaded, queue)

\* the file holds no array: it is missing, blank, no JSON, or JSON of another type
BadFile(f) ==
  \/ ~f.exists
  \/ f.text.form # "json"
  \/ f.text.type # "array"

\* C8: loading raises no error; a missing, blank, malformed or non-array file
\* gives an empty queue; the file is not touched before the first persist,
\* and the first persist after such a start leaves a file that reloads to the
\* in-memory queue.
C8_StartupLoad ==
  [][/\ ~startupThrew
     /\ (~persisted /\ BadFile(file)) => queue = <<>>
     /\ ~persisted' => file' = file
     /\ (~persisted /\ persisted' /\ BadFile(file)) =>
          /\ ~BadFile(file')
          /\ queue' # <<>>
          /\ SameQueue(safeReadJson(file').value, queue')]_vars

\* records were handled after a start on a malformed file, none persisted yet
C8_Witness ==
  /\ file = FileOf(GarbageText)
  /\ ~persisted
  /\ queue = <<>>
  /\ \E r \in Records : h[r].stage = "done" /\ h[r].posted

\* C9: once the inline POST of a record is answered 4xx (not 429), no further
\* request and no sleep follows: the record is enqueued in that step, the
\* requests sent are the earlier retryable failures plus this one, and a 4xx
\* answer to the first request means exactly one request and no sleep.
C9_Terminal4xx ==
  \A r \in Records :
    h[r].last = "terminal4xx" =>
      /\ h[r].stage = "done"
      /\ ~h[r].posted
      /\ EnqCount(r) = 1
      /\ h[r].sent = h[r].rfails + 1
      /\ h[r].sleeps = h[r].rfails
      /\ h[r].rfails = 0 => (h[r].sent = 1 /\ h[r].sleeps = 0)

\* the first request of a record was answered 404 with retries configured
C9_Witness ==
  \E r \in Records :
    /\ h[r].last = "terminal4xx" /\ h[r].sent = 1 /\ h[r].sleeps = 0
    /\ cfg.retries >= 1
    /\ \E i \in 1..Len(queue) :
         queue[i].data.rec = r /\ queue[i].lastError = HttpError(404)

\* C10: an inline POST sends at most retries + 1 requests; it sends exactly
\* retries + 1 when every one of them failed retryably; and a 2xx answer is
\* the last one: every request before it failed retryably.
C10_RetryBudget ==
  \A r \in Records :
    /\ h[r].sent <= cfg.retries + 1
    /\ h[r].sleeps <= cfg.retries
    /\ (h[r].stage = "done" /\ h[r].sent >= 1 /\ h[r].rfails = h[r].sent) =>
         h[r].sent = cfg.retries + 1
    /\ h[r].posted => (h[r].stage = "done" /\ h[r].sent = h[r].rfails + 1)

\* every request of a record failed retryably and the budget is spent
C10_Witness ==
  \E r \in Records :
    /\ cfg.retries >= 1
    /\ h[r].stage = "done" /\ h[r].rfails = h[r].sent
    /\ h[r].sent = cfg.retries + 1
    /\ EnqCount(r) = 1

\* C11: the step in which an inline POST receives its 2xx calls drain(): when
\* it ends the queue is empty or a drain is in flight, and if none was in
\* flight before, a new one has handed the head entry to postFn.  No other
\* callback, so no completion of another inline POST, runs in between.
C11_DrainOnInlineSuccess ==
  [][\A r \in DOMAIN h :
       (h'[r].posted /\ ~h[r].posted) =>
         /\ ev'.name = "drainCall"
         /\ queue' = <<>> \/ draining'
         /\ (~draining /\ queue # <<>>) =>
              \E s \in Slots :
                /\ ~drains[s].active /\ drains'[s].active
                /\ drains'[s].calls = 1
                /\ drains'[s].entry = queue[1].id
                /\ queue'[1].attempts = queue[1].attempts + 1]_vars

\* a replay is in flight that only the on-success trigger can have started:
\* the periodic tick no longer starts one for a head tried this often
C11_Witness ==
  /\ \E r \in DOMAIN h : h[r].posted
  /\ draining
  /\ queue # <<>>
  /\ queue[1].attempts > MaxAttempts

\* C12: records are handled one at a time in arrival order: the handling of
\* a frame's record begins only when the record of every earlier frame is
\* fully handled (posted with all its retries, or enqueued).
C12_OneAtATime ==
  \A r1, r2 \in DOMAIN h :
    (r1 < r2 /\ h[r2].stage # "idle") => h[r1].stage = "done"

\* the supervisor events after which the socket is gone without a request
\* from the operator: connect error, connect timeout, close of a connection
Failures == {"connectError", "connectTimeout", "close"}

\* C13: in TCP mode, while no shutdown is requested, every connect error,
\* connect timeout and close of a connected socket schedules exactly one
\* reconnect (no timer was pending, one is pending afterwards); there is
\* always a live socket or a pending reconnect timer; and a pending timer
\* leads to a new connect attempt (or to a shutdown request).
C13_AlwaysReconnects ==
  /\ [](~stopping => (Live(tcpSocket) \/ tcpReconnectTimer.pending))
  /\ [][(~stopping /\ tev'.name \in Failures) =>
          /\ ~tcpReconnectTimer.pending
          /\ tcpReconnectTimer'.pending
          /\ tev'.sched
          /\ ~Live(tcpSocket')]_vars
  /\ ((~stopping /\ tcpReconnectTimer.pending)
        ~> (stopping \/ (tev.conn /\ tcpSocket.state = "connecting")))

\* a second connect in a row timed out and its reconnect is scheduled
C13_Witness ==
  /\ ~stopping
  /\ tev.name = "connectTimeout"
  /\ tcpReconnectTimer.pending
  /\ attempt >= 2
  /\ tcpSocket.state = "closed"

\* C14: attempt changes in two ways only: a step that schedules a reconnect
\* adds exactly one, and the 'connect' event sets it to 0; every scheduling
\* adds one, and no other event (error, close under shutdown, timeout of a
\* dead socket, target replacement, timer firing) changes it.
C14_AttemptCounter ==
  [][/\ tev'.sched => attempt' = attempt + 1
     /\ tev'.name = "connect" => attempt' = 0
     /\ attempt' # attempt =>
          \/ tev'.sched /\ attempt' = attempt + 1
          \/ tev'.name = "connect" /\ attempt' = 0]_vars

\* the target was replaced during a backoff after two failures in a row
C14_Witness ==
  /\ tev.name = "setTarget"
  /\ ~tev.sched
  /\ tcpReconnectTimer.pending
  /\ attempt >= 2

\* max * (1 + jitter) for the configured maxDelayMs and jitterRatio
DelayCap(rc) == RMul(RInt(rc.maxDelayMs), RAdd(RInt(1), rc.jitterRatio))

\* C15 as claimed: every scheduled reconnect delay satisfies
\* 0 <= delay <= max * (1 + jitter).
C15_DelayWithinCap ==
  tcpReconnectTimer.pending =>
    /\ 0 <= tcpReconnectTimer.delayMs
    /\ RLeq(RInt(tcpReconnectTimer.delayMs), DelayCap(rcfg))

\* C15 as amended: every scheduled reconnect delay is a whole number of
\* milliseconds with 0 <= delay <= round(max * (1 + jitter)), and
\* delay <= max * (1 + jitter) where that product is a whole number.
C15_DelayWithinRoundedCap ==
  tcpReconnectTimer.pending =>
    /\ 0 <= tcpReconnectTimer.delayMs
    /\ tcpReconnectTimer.delayMs <= Round(DelayCap(rcfg))
    /\ DelayCap(rcfg).d = 1 =>
         RLeq(RInt(tcpReconnectTimer.delayMs), DelayCap(rcfg))

\* the capped delay with a jitter draw near 1 was rounded up past a cap that
\* is no whole number
C15_Witness ==
  /\ tcpReconnectTimer.pending
  /\ DelayCap(rcfg).d # 1
  /\ attempt >= 3
  /\ tcpReconnectTimer.delayMs = Round(DelayCap(rcfg))
  /\ ~RLeq(RInt(tcpReconnectTimer.delayMs), DelayCap(rcfg))

\* the delay ranges the k-th failure in a row is specified to produce
DelayRange(k) ==
  CASE k = 1 -> [lo |-> 800, hi |-> 1200]
    [] k = 2 -> [lo |-> 1440, hi |-> 2160]
    [] k = 3 -> [lo |-> 2592, hi |-> 3888]
    [] k = 4 -> [lo |-> 4665, hi |-> 6998]
    [] OTHER -> [lo |-> 0, hi |-> 36000]

\* C16: with base 1000, factor 1.8, jitter 0.2, the k-th failure in a row
\* (attempt goes from k - 1 to k, starting at 0) schedules a delay in
\* [800,1200], [1440,2160], [2592,3888], [4665,6998] for k = 1..4, and a
\* successful connect sets attempt to 0, so the next failure is a first one.
C16_DefaultDelays ==
  [][rcfg = DefaultRcfg =>
       /\ tev'.sched =>
            /\ attempt' = attempt + 1
            /\ tcpReconnectTimer'.delayMs >= DelayRange(attempt').lo
            /\ tcpReconnectTimer'.delayMs <= DelayRange(attempt').hi
       /\ tev'.name = "connect" => attempt' = 0
       /\ (tev'.sched /\ tcpSocket.state = "connected") =>
            /\ tcpReconnectTimer'.delayMs >= DelayRange(1).lo
            /\ tcpReconnectTimer'.delayMs <= DelayRange(1).hi]_vars

\* the fourth failure in a row drew the smallest delay of its range
C16_Witness ==
  /\ rcfg = DefaultRcfg
  /\ tev.name \in Failures /\ tev.sched
  /\ attempt = 4
  /\ tcpReconnectTimer.delayMs = 4666

\* C17: when the target is replaced while the supervisor is Connected, the
\* socket is closed and the reconnect is scheduled with delay 0, not with a
\* delay from the backoff formula.
C17_ReplaceWhileConnected ==
  [][(/\ tev'.name = "setTarget"
      /\ ~stopping
      /\ tcpSocket.state = "connected"
      /\ target' # target) =>
        /\ ~Live(tcpSocket')
        /\ tcpReconnectTimer'.pending
        /\ tcpReconnectTimer'.delayMs = 0]_vars

\* C18: when the target is replaced while a reconnect timer is pending, the
\* timer is cancelled and a connect attempt against the new target starts in
\* that step.
C18_ReplaceInBackoff ==
  [][(/\ tev'.name = "setTarget"
      /\ ~stopping
      /\ tcpReconnectTimer.pending
      /\ target' # target) =>
        /\ ~tcpReconnectTimer'.pending
        /\ tev'.conn
        /\ tcpSocket' = NewSocket(target')]_vars

\* the reconnect timer is cancelled and the socket destroyed
Cancelled == ~tcpReconnectTimer.pending /\ tcpSocket = NoSocket

C20_ExitWaitsForDrain ==
  /\ stopping => ~timer
  /\ exited => \A s \in Slots : ~(drains[s].active /\ drains[s].held)

\* the step hands the record of frame r to the callback
Arrives(r) == h[r].stage = "idle" /\ h'[r].stage # "idle"

\* the record of frame r is a Status record that suppressStatus drops
Suppressed(hr) ==
  hr.kind \in RecordKinds \ {"parseError"}
    /\ cfg.suppressStatus /\ isStatusRecord(hr.kind)

\* C21: with suppressStatus on, a parsed Status record adds one to msgTotal
\* and to msgSuppressed and leaves msgOk (and the other counters) alone; its
\* handling ends in the step that began it, without a JSON log line or a
\* request, and it is never enqueued.
C21_StatusSuppressed ==
  /\ [][\A r \in DOMAIN h :
          (Arrives(r) /\ Suppressed(h'[r])) =>
            /\ msg' = [msg EXCEPT !.msgTotal = @ + 1, !.msgSuppressed = @ + 1]
            /\ msg'.msgOk = msg.msgOk
            /\ h'[r].stage = "done"
            /\ UNCHANGED <<queue, file, enqLog, nextId>>]_vars
  /\ [](\A r \in DOMAIN h :
          Suppressed(h[r]) =>
            /\ ~h[r].logged /\ ~h[r].warned
            /\ h[r].sent = 0 /\ h[r].pw = PwrIdle
            /\ EnqCount(r) = 0)

\* a Status record was suppressed, with posting on, after a record that was
\* counted as handled
C21_Witness ==
  /\ cfg.suppressStatus /\ cfg.postEnabled
  /\ \E r \in DOMAIN h : h[r].kind = "status" /\ h[r].stage = "done"
  /\ msg.msgSuppressed = 1
  /\ msg.msgOk = 1
  /\ msg.msgTotal = 2

\* C22: a frame the parser rejects adds one to msgTotal and to msgParseErr
\* and to no other counter; it is logged as a warning and its handling ends
\* there: no JSON log line, no request, no queue entry.
C22_ParseErrorDropped ==
  /\ [][\A r \in DOMAIN h :
          (Arrives(r) /\ h'[r].kind = "parseError") =>
            /\ msg' = [msg EXCEPT !.msgTotal = @ + 1, !.msgParseErr = @ + 1]
            /\ h'[r].stage = "done"
            /\ h'[r].warned
            /\ UNCHANGED <<queue, file, enqLog, nextId>>]_vars
  /\ [](\A r \in DOMAIN h :
          h[r].kind = "parseError" =>
            /\ ~h[r].logged
            /\ h[r].sent = 0 /\ h[r].pw = PwrIdle
            /\ EnqCount(r) = 0)

\* a frame was rejected with posting on, and a later record was handled
C22_Witness ==
  /\ cfg.postEnabled
  /\ \E r1, r2 \in DOMAIN h :
       /\ r1 < r2
       /\ h[r1].kind = "parseError"
       /\ h[r2].kind = "passing" /\ h[r2].stage = "done"
  /\ msg.msgParseErr = 1
  /\ msg.msgTotal = 2

\* frame r gave a record whose CRC check failed
BadCrc(hr) == hr.kind \in RecordKinds \ {"parseError"} /\ ~hr.crcOk

\* the payload of every queue entry made for record r carries the record's
\* crcOk, in memory and in the file
QueuedWithCrc(r) ==
  /\ \A i \in 1..Len(queue) :
       queue[i].data.rec = r => queue[i].data.crcOk = h[r].crcOk
  /\ \A i \in 1..Len(Reloaded) :
       Reloaded[i].data.rec = r => Reloaded[i].data.crcOk = h[r].crcOk

\* the delivery of record r: JSON-logged; with posting on, a request is sent
\* and the handling ends with a 2xx or with one enqueue
DeliveredAsValid(r) ==
  /\ h[r].logged
  /\ cfg.postEnabled => h[r].sent >= 1
  /\ (cfg.postEnabled /\ h[r].stage = "done") =>
       \/ h[r].posted /\ EnqCount(r) = 0
       \/ ~h[r].posted /\ EnqCount(r) = 1
  /\ QueuedWithCrc(r)

\* C23 as claimed: every record whose CRC check failed adds one to msgCrcBad
\* and is delivered like a valid record, with crcOk = false in its payload.
C23_BadCrcDelivered ==
  /\ [][\A r \in DOMAIN h :
          (Arrives(r) /\ BadCrc(h'[r])) =>
            msg'.msgCrcBad = msg.msgCrcBad + 1]_vars
  /\ [](\A r \in DOMAIN h : BadCrc(h[r]) => DeliveredAsValid(r))

\* C23 as amended: a record whose CRC check failed and that is not a Status
\* record dropped by suppressStatus adds one to msgCrcBad (and to msgOk), is
\* logged as a warning and is delivered like a valid record, with
\* crcOk = false in its payload; a Status record that suppressStatus drops
\* is dropped whatever its CRC and leaves msgCrcBad alone.
C23_BadCrcDeliveredUnlessSuppressed ==
  /\ [][\A r \in DOMAIN h :
          (Arrives(r) /\ BadCrc(h'[r])) =>
            IF Suppressed(h'[r])
            THEN msg'.msgCrcBad = msg.msgCrcBad
            ELSE /\ msg'.msgCrcBad = msg.msgCrcBad + 1
                 /\ msg'.msgOk = msg.msgOk + 1
                 /\ h'[r].warned]_vars
  /\ [](\A r \in DOMAIN h :
          (BadCrc(h[r]) /\ ~Suppressed(h[r])) => DeliveredAsValid(r))

\* a record whose CRC check failed was answered 404 and sits in the queue
\* file with crcOk = false
C23_Witness ==
  \E r \in DOMAIN h :
    /\ BadCrc(h[r]) /\ h[r].stage = "done" /\ ~h[r].posted
    /\ msg.msgCrcBad >= 1
    /\ \E i \in 1..Len(Reloaded) :
         Reloaded[i].data.rec = r /\ Reloaded[i].data.crcOk = FALSE

\* entries of the in-memory queue made for record r
Copies(r) == Cardinality({i \in 1..Len(queue) : queue[i].data.rec = r})

\* the ids in a queue, in order
IdSeq(q) == [i \in 1..Len(q) |-> q[i].id]

\* C24: a failed write of the queue file does not escape the pipeline (no
\* exception leaves the decoder callback or drain() unhandled), a record is
\* in the in-memory queue at most once and, once its handling ended without
\* a 2xx, exactly once until it is replayed, and a write that succeeds after
\* a failed one brings the file back to the entries of the in-memory queue.
C24_WriteFailureContained ==
  /\ [](~unhandled)
  /\ [](\A r \in DOMAIN h :
          /\ Copies(r) <= 1
          /\ (h[r].stage = "done" /\ h[r].sent >= 1 /\ ~h[r].posted) =>
               (Copies(r) = 1 \/ EnqIds(r) \subseteq Range(replayed)))
  /\ [][file' # file => IdSeq(safeReadJson(file').value) = IdSeq(queue')]_vars

\* C25: in UDP mode an 'error' of the bound socket leaves the listener
\* running (the socket stays bound, the process goes on), and a failure of
\* the bind ends the process: it never runs on without a listening socket.
C25_BindFailureFatal ==
  /\ [][tev'.name = "udpError" =>
          /\ udpSocket.state = "listening"
          /\ udpSocket' = udpSocket
          /\ ~exited']_vars
  /\ [](udpSocket.state = "unbound" => exited)

\* the step ends a drain that replayed entry 1 with success and then entry 2
\* without
FailsOnSecond ==
  /\ ev'.name = "drainFail"
  /\ \E s \in ActiveDrains :
       drains[s].processed = 1 /\ drains[s].tried = {1, 2}

\* C26 as claimed: after a drain over the reloaded entries 1, 2, 3 in which
\* the POST of entry 1 succeeds and that of entry 2 fails, the file contains
\* only entry 2, with attempts >= 1.
C26_OnlyFailedEntryRemains ==
  [][FailsOnSecond =>
       /\ IdSeq(safeReadJson(file').value) = <<2>>
       /\ safeReadJson(file').value[1].attempts >= 1]_vars

\* C26 as amended: that drain ends at the failure of entry 2 and does not
\* try entry 3: afterwards the file contains entry 2 (attempts >= 1, its
\* lastError the failure) followed by entry 3 exactly as it was loaded, and
\* entry 1 is gone.
C26_FailedEntryBlocksTheRest ==
  [][FailsOnSecond =>
       /\ IdSeq(safeReadJson(file').value) = <<2, 3>>
       /\ SameQueue(safeReadJson(file').value, queue')
       /\ queue'[1].attempts >= 1
       /\ queue'[1].lastError = ev'.err
       /\ queue'[2] = QueuedEntry(3)
       /\ replayed' = <<1>>
       /\ ~draining'
       /\ ActiveDrains' = {}]_vars

\* the first drain after the restart replayed entry 1 and failed on entry 2
C26_Witness ==
  /\ ev.name = "drainFail"
  /\ replayed = <<1>>
  /\ IdSeq(Reloaded) = <<2, 3>>
  /\ queue[1].attempts = 1
  /\ ~draining

\* C27: crc16Ccitt(buf) is the CRC-16/CCITT-FALSE of buf (polynomial 0x1021,
\* initial value 0xFFFF, no reflection, no final XOR, computed bit by bit),
\* for every buffer, and lies within 0..0xFFFF.
C27_CrcIsCcittFalse ==
  crcRun.pc = "returned" =>
    /\ crcRun.crc = crcRun.ref
    /\ crcRun.crc \in 0..(Word - 1)

\* C28: when the whole of a well-formed stream has been pushed, the frame
\* payloads emitted are those a single push of the whole stream emits,
\* whatever the chunks were (one byte each, the whole stream at once, or
\* anything between), and nothing is left in the rolling buffer.
C28_SplitInvariant ==
  decoder.rest = <<>> =>
    /\ decoder.frames = Scan(decoder.stream, <<>>).frames
    /\ decoder.buffer = Scan(decoder.stream, <<>>).buffer

\* a stream of two frames has arrived one byte per push, one of the chunks
\* ending between a DLE and the byte it escapes, and the payloads sent came out
C28_Witness ==
  /\ decoder.rest = <<>>
  /\ Len(decoder.sent) = 2
  /\ decoder.bytewise
  /\ \E k \in 1..Len(decoder.stream) : decoder.stream[k] = DLE
  /\ decoder.frames = decoder.sent

\* the request carries the listener's token in an Authorization: Bearer
\* header or in an X-Admin-Token header
TokenInHeader(req) ==
  \/ /\ toLowerCase(req.authorization.scheme) = "bearer"
     /\ req.authorization.cred = req.token
  \/ req.xAdminToken = req.token

\* C29: with admin.token set, a request reaches an endpoint handler only if
\* it carries the token in an Authorization: Bearer header or an
\* X-Admin-Token header; a request with the token in neither header is
\* answered 401.
C29_TokenOnlyInHeaders ==
  adminReq.token # Null /\ adminReq.stage \in {"handler", "401"} =>
    /\ adminReq.stage = "handler" => TokenInHeader(adminReq)
    /\ ~TokenInHeader(adminReq) => adminReq.stage = "401"

\* the leaf paths of the last PUT's patch that are on the allowlist, the
\* leaf values of the configuration before and after it
AppliedPaths == {p \in DOMAIN flattenPatch(<<>>, live.res.patch) : p \in AllowList}
Before == flattenPatch(<<>>, live.res.before)
After == flattenPatch(<<>>, live.config)

\* q is a proper prefix of p
ProperPrefix(q, p) == Len(q) < Len(p) /\ SubSeq(p, 1, Len(q)) = q

\* every applied path has the patch's value, and what is reported as applied
\* and rejected partitions the patch's leaf paths
AppliedAndReported ==
  LET flat == flattenPatch(<<>>, live.res.patch)
  IN /\ \A p \in AppliedPaths : p \in DOMAIN After /\ After[p] = flat[p]
     /\ live.res.status = 200 =>
          /\ live.res.applied = AppliedPaths
          /\ live.res.rejected = DOMAIN flat \ AppliedPaths
          /\ live.res.applied \cap live.res.rejected = {}
          /\ live.res.applied \cup live.res.rejected = DOMAIN flat

\* field q is as it was before the PUT: absent, or present with its value
Kept(q) ==
  /\ q \in DOMAIN Before <=> q \in DOMAIN After
  /\ q \in DOMAIN Before => After[q] = Before[q]

Posts == {h[r].pw : r \in DOMAIN h} \cup {drains[s].pw : s \in Slots}

\* no sleep follows the final attempt: a sleep is made after attempt k only
\* for k <= retries, one after each attempt but the last made
SleepsBetweenAttempts(pw) ==
  /\ Len(pw.slept) <= cfg.retries
  /\ pw.pc = "sleep" => Len(pw.slept) = pw.attempt
  /\ pw.pc = "http" => Len(pw.slept) = pw.attempt - 1

\* n is x rounded down: the whole number with n <= x < n + 1
RoundedDown(n, x) ==
  n.d = 1 /\ RLeq(n, x) /\ ~RLeq(RAdd(n, RInt(1)), x)

\* C31 as claimed: the k-th sleep of a call lasts
\* retryDelayMs * multiplier^(k-1) ms, and no sleep follows the final attempt.
C31_SleepIsGeometric ==
  \A pw \in Posts :
    /\ SleepsBetweenAttempts(pw)
    /\ \A k \in 1..Len(pw.slept) :
         pw.slept[k] = RMul(cfg.retryDelayMs, RPow(cfg.retryBackoffMultiplier, k - 1))

\* C31 as amended: the first sleep lasts retryDelayMs, every later one the
\* previous one times the multiplier rounded down to a whole number of ms;
\* that is retryDelayMs * multiplier^(k-1) when retryDelayMs and the
\* multiplier are whole numbers (500, 1000, 2000, 4000, 8000 with the
\* defaults); no sleep follows the final attempt.
C31_SleepIsFlooredProduct ==
  \A pw \in Posts :
    /\ SleepsBetweenAttempts(pw)
    /\ \A k \in 1..Len(pw.slept) :
         /\ k = 1 => pw.slept[k] = cfg.retryDelayMs
         /\ k > 1 => RoundedDown(pw.slept[k],
                                 RMul(pw.slept[k - 1], cfg.retryBackoffMultiplier))
         /\ cfg.retryDelayMs.d = 1 /\ cfg.retryBackoffMultiplier.d = 1 =>
              pw.slept[k] = RMul(cfg.retryDelayMs,
                                 RPow(cfg.retryBackoffMultiplier, k - 1))

\* with the defaults an inline POST has slept 500, 1000, 2000, 4000 and
\* 8000 ms and failed for good, and is not sleeping again
C31_Witness ==
  \E r \in DOMAIN h :
    /\ h[r].pw.slept = <<RInt(500), RInt(1000), RInt(2000), RInt(4000), RInt(8000)>>
    /\ h[r].pw.attempt = 6
    /\ h[r].stage = "done"

\* the bytes of a run that are TAB, LF, CR or in 0x20..0x7E
PrintableCount(buf) ==
  Cardinality({k \in 1..Len(buf) : buf[k] \in {9, 10, 13} \cup (32..126)})

\* C32: a byte run is classified as printable exactly when at least 85% of
\* its bytes are TAB, LF, CR or in 0x20..0x7E; a run with exactly 85% such
\* bytes (17 of 20) is printable.
C32_PrintableAtLeast85 ==
  printRun.pc = "returned" /\ Len(printRun.buf) > 0 =>
    (printRun.result <=>
       100 * PrintableCount(printRun.buf) >= 85 * Len(printRun.buf))

\* what isMostlyPrintable computes: printable exactly when more than 85% of
\* the bytes are TAB, LF, CR or in 0x20..0x7E, and never for an empty run
PrintableAbove85 ==
  printRun.pc = "returned" =>
    (printRun.result <=>
       100 * PrintableCount(printRun.buf) > 85 * Len(printRun.buf))

\* a number written in base 256, lowest digit first, without leading zeros:
\* two digit sequences stand for the same number exactly when these are equal
RECURSIVE Numeral(_)
Numeral(digits) ==
  IF digits = <<>> \/ digits[Len(digits)] # 0 THEN digits
  ELSE Numeral(SubSeq(digits, 1, Len(digits) - 1))

\* C33: the little-endian unsigned integer decode returns the sum of
\* buf[i] * 256^i for every byte sequence of length 0 to 8; an empty sequence
\* decodes to 0.
C33_UIntIsLittleEndianSum ==
  uintRun.pc = "returned" => Numeral(uintRun.v) = Numeral(uintRun.buf)

\* what readUIntLE computes: the sum of buf[i] * 256^i for up to four bytes
UIntUpTo32Bits ==
  uintRun.pc = "returned" /\ Len(uintRun.buf) <= WordBytes =>
    Numeral(uintRun.v) = Numeral(uintRun.buf)

\* the values of the fields of a record that carry the name, in field order
ValuesOf(fields, name) ==
  LET named == SelectSeq(fields, LAMBDA f : f.tofName = name /\ f.value # Undefined)
  IN [k \in 1..Len(named) |-> named[k].value]

\* C34: in the flat decoded map a field name that occurs once maps to its
\* single value, a name that occurs k >= 2 times maps to the sequence of all
\* k values in field order, and fields without a value are skipped.
C34_DecodedCollectsValues ==
  decodedRun.pc = "built" =>
    \A name \in FieldNames :
      LET values == ValuesOf(decodedRun.fields, name)
          slot == decodedRun.decoded[name]
      IN /\ Len(values) = 0 => slot = NoSlot
         /\ Len(values) = 1 => slot = Single(values[1])
         /\ Len(values) >= 2 => slot = Array(values)

\* a record with three fields of one name has been mapped: the slot is the
\* array of the three values
C34_Witness ==
  /\ decodedRun.pc = "built"
  /\ Len(ValuesOf(decodedRun.fields, "tranCode")) = 3
  /\ decodedRun.decoded["tranCode"] = Array(<<"17", "2a", "17">>)

\* C35: the drain's single-flight flag is false whenever no drain invocation
\* is executing; it is cleared at the end of every drain, also of one in
\* which the post function threw or the write of the file failed.
C35_FlagClearedAfterDrain ==
  (\A s \in Slots : ~drains[s].active) => ~draining

\* the post function of a drain threw and the write of the file failed: the
\* exception has left drain(), the entry is still queued, no drain is
\* executing and the flag is clear
C35_Witness ==
  /\ ev = Event("drainFail", ExceptionError)
  /\ unhandled
  /\ faults < MaxFaults
  /\ \E id \in Ids(queue) : queue[1].id = id /\ queue[1].attempts > 0
  /\ \A s \in Slots : ~drains[s].active
  /\ ~draining

\* the queue is empty and the file holds an empty array
QueueEmptied == queue = <<>> /\ file = FileOf(Stringify(<<>>))

\* C36: if from some point on every POST returns 2xx and no new entry is
\* enqueued, then, with the periodic drain tick continuing to fire, the
\* queue eventually becomes empty and the file holds an empty array.
C36_ReplayEmptiesQueue == <>[]QueueEmptied

\* C36 as amended: the same, provided post.queueDrainMaxPerTick is 1 or more;
\* with 0 (or less) every drain ends without a POST and the queue stays.
C36_ReplayEmptiesQueueIfDraining ==
  (cfg.drainMaxPerTick >= 1) => <>[]QueueEmptied

\* three entries left by a previous run have been replayed in order, the
\* queue is empty and the file holds an empty array
C36_Witness ==
  /\ replayed = <<1, 2, 3>>
  /\ QueueEmptied
  /\ ~draining

\* the entries a reload of the file would put into the queue
OnDisk == safeReadJson(file).value

\* a drain is awaiting the POST of the entry with this id
Replaying(id) == draining /\ \E s \in Slots : drains[s].active /\ drains[s].entry = id

\* C37: once a first persist has happened, at every point where control is
\* yielded the entry ids in the queue file are the entry ids of the in-memory
\* queue, in order; only the head's attempts and lastTriedAt may be ahead in
\* memory, and only while a drain is awaiting its POST.
C37_FileHoldsQueue ==
  persisted =>
    /\ IdSeq(OnDisk) = IdSeq(queue)
    /\ \A i \in 1..Len(queue) :
         OnDisk[i] # JsonEntry(queue[i]) =>
           /\ i = 1
           /\ Replaying(queue[1].id)
           /\ OnDisk[i].attempts < queue[i].attempts
           /\ OnDisk[i] = [JsonEntry(queue[i]) EXCEPT
                             !.attempts = OnDisk[i].attempts,
                             !.lastTriedAt = OnDisk[i].lastTriedAt]

\* a record was enqueued behind an older entry, and a drain now awaits the
\* POST of the head: the ids on disk are those in memory, the head's
\* attempts are ahead in memory
C37_Witness ==
  /\ persisted
  /\ Len(queue) >= 2
  /\ enqLog # <<>>
  /\ Replaying(queue[1].id)
  /\ OnDisk[1].attempts < queue[1].attempts
  /\ IdSeq(OnDisk) = IdSeq(queue)

\* C38: in TCP mode there is at most one live (connecting or connected)
\* socket and at most one pending reconnect timer at any time, and a pending
\* reconnect timer never coexists with a live socket: a step that creates a
\* socket starts where no socket is live, a step that arms the reconnect
\* timer starts where none is pending.
C38_OneSocketOneTimer ==
  /\ [](~(tcpReconnectTimer.pending /\ Live(tcpSocket)))
  /\ [][/\ tev'.conn => ~Live(tcpSocket)
        /\ tev'.sched => ~tcpReconnectTimer.pending]_vars

\* the second reconnect in a row is scheduled after the target was replaced:
\* the timer is pending and the socket made by the first reconnect is closed
C38_Witness ==
  /\ tcpReconnectTimer.pending
  /\ tev.sched
  /\ attempt = 2
  /\ tcpSocket.state = "closed"
  /\ tcpSocket.target = "B"

\* C39: every TCP connection attempt is made against the target (host, port)
\* most recently set at the moment the attempt starts; after a target
\* replacement no later attempt uses the old target, and no live socket is
\* one to a target that has been replaced.
C39_ConnectsToLatestTarget ==
  /\ [](Live(tcpSocket) => tcpSocket.target = target)
  /\ [][tev'.conn => /\ tcpSocket'.state = "connecting"
                     /\ tcpSocket'.target = target
                     /\ target' = target]_vars

\* the target was replaced, and the attempt the reconnect timer started goes
\* to the new target
C39_Witness ==
  /\ tev = TEvent("connectOnce", FALSE, TRUE)
  /\ tcpSocket = NewSocket("B")
  /\ target = "B"
  /\ attempt >= 1

\* the sum of the counts of a map over the keys given
RECURSIVE SumOver(_, _)
SumOver(map, keys) ==
  IF keys = {} THEN 0
  ELSE LET k == CHOOSE x \in keys : TRUE
       IN map[k] + SumOver(map, keys \ {k})

\* C40: after any sequence of parse results the status counters satisfy
\* msgTotal = msgOk + msgParseErr + msgSuppressed, msgCrcBad <= msgOk, and
\* the per-TOR-name counts sum to msgOk.
C40_CountersAddUp ==
  /\ msg.msgTotal = msg.msgOk + msg.msgParseErr + msg.msgSuppressed
  /\ msg.msgCrcBad <= msg.msgOk
  /\ SumOver(msg.msgByTorName, TorNames) = msg.msgOk

\* two records of one type have been counted, one of them with a bad CRC
C40_Witness ==
  /\ msg.msgOk = 2
  /\ msg.msgCrcBad = 1
  /\ msg.msgByTorName["Passing"] = 2

====
